---- MODULE Spec2Model ----
(***************************************************************************)
(* Flight-booking backend (server.js): the booking transaction, the        *)
(* payment-status transitions and the payment-information save, as a       *)
(* state machine over the five SQLite tables.                               *)
(*                                                                         *)
(* Every request handler is an async function: each `await db.get/run` is  *)
(* one atomic database statement, and the JavaScript between two awaits    *)
(* runs without interruption.  A handler is therefore a sequence of steps, *)
(* one per database statement, and the steps of concurrent requests        *)
(* interleave.  Each request runs in a slot p of Procs; pc[p] is the       *)
(* statement it will execute next.                                         *)
(*                                                                         *)
(* Representation.  A missing string (undefined, null, '') is "", a        *)
(* missing number (NULL price, NULL return_flight_id) is 0: the code only  *)
(* tests these by truthiness.  Money is held in hundredths of a currency   *)
(* unit, so that the multipliers 0.75 and 0.1 and a percentage are exact;  *)
(* base prices in the model are multiples of 100.                          *)
(***************************************************************************)
EXTENDS Integers, Sequences, FiniteSets, TLC

(* ------------------------------ bounds -------------------------------- *)
\* most passengers in one booking request
MaxPassengers == 2
\* most booking rows ever inserted (also the size of the token alphabet)
MaxBookings == 2
\* most injected failures of the booking_details INSERT
MaxFaults == 1
\* most requests ever started
MaxOps == 3
\* most requests ever started in the life of one booking with a promo code
MaxPromoOps == 4

Procs == {1, 2}

(* ------------------------- strings and numbers ------------------------ *)
\* the strings that reach toUpperCase / toLowerCase in the model
ToUpperCase(s) ==
    CASE s = "adult" -> "ADULT"
      [] s = "child" -> "CHILD"
      [] s = "infant" -> "INFANT"
      [] s = "senior" -> "SENIOR"
      [] OTHER -> s

ToLowerCase(s) ==
    CASE s = "ADULT" -> "adult"
      [] s = "CHILD" -> "child"
      [] s = "INFANT" -> "infant"
      [] s = "SENIOR" -> "senior"
      [] OTHER -> s

Max(a, b) == IF a >= b THEN a ELSE b

\* a || b on numbers: 0 and NULL are falsy
OrNum(a, b) == IF a # 0 THEN a ELSE b
\* a || b on strings: '' and undefined are falsy
OrStr(a, b) == IF a # "" THEN a ELSE b

(* ------------------------------ flights ------------------------------- *)
SeatFields == {"seats_economy", "seats_premium_economy", "seats_business", "seats_first"}

\* the switch(seatClass) of the booking and payment handlers
SeatFieldOf(seatClass) ==
    CASE seatClass = "PREMIUM_ECONOMY" -> "seats_premium_economy"
      [] seatClass = "BUSINESS" -> "seats_business"
      [] seatClass = "FIRST" -> "seats_first"
      [] OTHER -> "seats_economy"

\* a selection of the base price without the fallback to the ECONOMY price
BasePriceWithoutFallback(flight, seatClass) ==
    CASE seatClass = "PREMIUM_ECONOMY" -> flight.price_premium_economy
      [] seatClass = "BUSINESS" -> flight.price_business
      [] seatClass = "FIRST" -> flight.price_first
      [] OTHER -> flight.price_economy

\* the switch(seatClass) that selects the base price of a leg
BasePriceOf(flight, seatClass) ==
    CASE seatClass = "PREMIUM_ECONOMY" -> OrNum(flight.price_premium_economy, flight.price_economy)
      [] seatClass = "BUSINESS" -> OrNum(flight.price_business, flight.price_economy)
      [] seatClass = "FIRST" -> OrNum(flight.price_first, flight.price_economy)
      [] OTHER -> flight.price_economy

NoFlight ==
    [flight_id |-> 0, code |-> "",
     price_economy |-> 0, price_premium_economy |-> 0, price_business |-> 0, price_first |-> 0,
     seats_economy |-> 0, seats_premium_economy |-> 0, seats_business |-> 0, seats_first |-> 0,
     available_seats |-> 0]

\* rows as populateSampleFlights writes them: a class that is not offered has
\* no price and 0 seats, available_seats is the sum of the four counts
SampleFlights ==
    <<[flight_id |-> 1, code |-> "VN1000",
       price_economy |-> 1000000, price_premium_economy |-> 0,
       price_business |-> 2500000, price_first |-> 0,
       seats_economy |-> 3, seats_premium_economy |-> 0, seats_business |-> 2, seats_first |-> 0,
       available_seats |-> 5],
      [flight_id |-> 2, code |-> "VJ1001",
       price_economy |-> 500000, price_premium_economy |-> 700000,
       price_business |-> 0, price_first |-> 0,
       seats_economy |-> 2, seats_premium_economy |-> 1, seats_business |-> 1, seats_first |-> 0,
       available_seats |-> 4]>>

FlightIds == DOMAIN SampleFlights

\* a flight reference of a request: a number (database id) or a display code
NoRef == [isNum |-> FALSE, num |-> 0, str |-> ""]
NumRef(n) == [isNum |-> TRUE, num |-> n, str |-> ""]
CodeRef(s) == [isNum |-> FALSE, num |-> 0, str |-> s]
\* !ref: undefined, null, 0 and '' are falsy
RefMissing(ref) == IF ref.isNum THEN ref.num = 0 ELSE ref.str = ""

\* SELECT * FROM flights WHERE flight_id = ?, then WHERE airline_code || flight_number = ?
FindFlight(fl, ref) ==
    LET byId == {f \in DOMAIN fl : ref.isNum /\ fl[f].flight_id = ref.num}
        byCode == {f \in DOMAIN fl : ~ref.isNum /\ fl[f].code = ref.str}
    IN  IF byId # {} THEN fl[CHOOSE f \in byId : TRUE]
        ELSE IF byCode # {} THEN fl[CHOOSE f \in byCode : TRUE]
        ELSE NoFlight

\* UPDATE flights SET <field> = <field> - n, available_seats = available_seats - n
\* WHERE flight_id = id
DecrementSeats(fl, id, field, n) ==
    [f \in DOMAIN fl |->
        IF fl[f].flight_id = id
        THEN [fl[f] EXCEPT ![field] = @ - n, !.available_seats = @ - n]
        ELSE fl[f]]

\* a release that forgets the aggregate column
RestoreClassSeatsOnly(fl, id, field, n) ==
    [f \in DOMAIN fl |->
        IF fl[f].flight_id = id THEN [fl[f] EXCEPT ![field] = @ + n] ELSE fl[f]]

\* UPDATE flights SET <field> = <field> + n, available_seats = available_seats + n
\* WHERE flight_id = id
RestoreSeats(fl, id, field, n) ==
    [f \in DOMAIN fl |->
        IF fl[f].flight_id = id
        THEN [fl[f] EXCEPT ![field] = @ + n, !.available_seats = @ + n]
        ELSE fl[f]]

(* ----------------------------- passengers ----------------------------- *)
\* a multiplier table that charges every passenger the adult fare
AdultFareForAll(passengerType) == 100

\* getPriceMultiplierForPassengerType, in hundredths
getPriceMultiplierForPassengerType(passengerType) ==
    CASE passengerType = "ADULT" -> 100
      [] passengerType = "CHILD" -> 75
      [] passengerType = "INFANT" -> 10
      [] OTHER -> 100

\* determinePassengerTypeFromDOB; a date of birth is held as the age in whole
\* years it gives today, -1 when the request has none
NoDob == -1
determinePassengerTypeFromDOB(dob) ==
    IF dob = NoDob THEN "ADULT"
    ELSE IF dob < 2 THEN "INFANT"
    ELSE IF dob < 12 THEN "CHILD"
    ELSE "ADULT"

\* passenger.passengerType || passenger.type || determinePassengerTypeFromDOB(dob) || 'ADULT',
\* upper-cased: the value stored in passenger.calculatedPassengerType
CalculatedPassengerType(passenger) ==
    ToUpperCase(OrStr(passenger.passengerType,
                      OrStr(passenger.type,
                            OrStr(determinePassengerTypeFromDOB(passenger.dob), "ADULT"))))

\* the type written to booking_details.passenger_type; calc is the passenger's
\* calculatedPassengerType ("" when the fare was not calculated)
PersistedPassengerType(passenger, calc) ==
    IF passenger.type # ""
    THEN CASE ToLowerCase(passenger.type) = "adult" -> "ADULT"
           [] ToLowerCase(passenger.type) = "child" -> "CHILD"
           [] ToLowerCase(passenger.type) = "infant" -> "INFANT"
           [] OTHER -> "ADULT"
    ELSE IF passenger.passengerType # "" THEN ToUpperCase(passenger.passengerType)
    ELSE IF calc # "" THEN calc
    ELSE OrStr(determinePassengerTypeFromDOB(passenger.dob), "ADULT")

RECURSIVE SumOver(_, _)
\* sum of f[i] over the indices in S
SumOver(f, S) ==
    IF S = {} THEN 0
    ELSE LET i == CHOOSE j \in S : TRUE IN f[i] + SumOver(f, S \ {i})

\* the two fare loops: every passenger's base price times the multiplier of
\* the calculated type, for the departure leg and, on a round trip with a
\* resolved return flight, for the return leg (hundredths)
CalculatedAmount(passengers, basePrice, hasReturn, returnBasePrice) ==
    LET mult == [i \in DOMAIN passengers |->
                    getPriceMultiplierForPassengerType(CalculatedPassengerType(passengers[i]))]
        dep == SumOver([i \in DOMAIN passengers |-> basePrice * mult[i]], DOMAIN passengers)
        ret == SumOver([i \in DOMAIN passengers |-> returnBasePrice * mult[i]], DOMAIN passengers)
    IN  IF hasReturn THEN dep + ret ELSE dep

(* ----------------------------- promotions ----------------------------- *)
NoPromo ==
    [promo_id |-> 0, code |-> "", discount_type |-> "", discount_value |-> 0,
     valid_from |-> 0, valid_to |-> 0, usage_limit |-> 0, used_count |-> 0, status |-> ""]

\* the current day: date("now")
Today == 100

\* rows in the shape populateSamplePromotions writes: a 25 percent and a fixed
\* 200000 promotion that are valid today, and one promotion for each way of
\* not being valid (window over, window not begun, usage limit reached)
SamplePromotions ==
    <<[promo_id |-> 1, code |-> "SUMMER25", discount_type |-> "percent", discount_value |-> 25,
       valid_from |-> 90, valid_to |-> 110, usage_limit |-> 3, used_count |-> 0,
       status |-> "active"],
      [promo_id |-> 2, code |-> "FIXED200K", discount_type |-> "fixed", discount_value |-> 200000,
       valid_from |-> 90, valid_to |-> 110, usage_limit |-> 50, used_count |-> 0,
       status |-> "active"],
      [promo_id |-> 3, code |-> "OLD10", discount_type |-> "percent", discount_value |-> 10,
       valid_from |-> 50, valid_to |-> 60, usage_limit |-> 500, used_count |-> 0,
       status |-> "expired"],
      [promo_id |-> 4, code |-> "NEXT10", discount_type |-> "percent", discount_value |-> 10,
       valid_from |-> 120, valid_to |-> 130, usage_limit |-> 500, used_count |-> 0,
       status |-> "scheduled"],
      [promo_id |-> 5, code |-> "FULL10", discount_type |-> "percent", discount_value |-> 10,
       valid_from |-> 90, valid_to |-> 110, usage_limit |-> 1, used_count |-> 1,
       status |-> "active"]>>

\* a lookup that takes any promotion of that code, usable or not
FindPromoIgnoringValidity(pr, code, today) ==
    LET hit == {k \in DOMAIN pr : pr[k].code = code}
    IN  IF hit # {} THEN pr[CHOOSE k \in hit : TRUE] ELSE NoPromo

\* SELECT * FROM promotions WHERE code = ? AND used_count < usage_limit
\*   AND valid_from <= date("now") AND valid_to >= date("now")
FindUsablePromo(pr, code, today) ==
    LET hit == {k \in DOMAIN pr :
                    /\ pr[k].code = code
                    /\ pr[k].used_count < pr[k].usage_limit
                    /\ pr[k].valid_from <= today
                    /\ pr[k].valid_to >= today}
    IN  IF hit # {} THEN pr[CHOOSE k \in hit : TRUE] ELSE NoPromo

\* SELECT * FROM promotions WHERE code = ?
FindPromoByCode(pr, code) ==
    LET hit == {k \in DOMAIN pr : pr[k].code = code}
    IN  IF hit # {} THEN pr[CHOOSE k \in hit : TRUE] ELSE NoPromo

\* UPDATE promotions SET used_count = used_count + 1 WHERE promo_id = ?
IncrementUsedCount(pr, id) ==
    [k \in DOMAIN pr |->
        IF pr[k].promo_id = id THEN [pr[k] EXCEPT !.used_count = @ + 1] ELSE pr[k]]

\* discountApplied of the booking handler, in hundredths
DiscountApplied(promo, calculatedAmount) ==
    IF promo.discount_type = "percent" THEN (calculatedAmount \div 100) * promo.discount_value
    ELSE IF promo.discount_type = "fixed" THEN promo.discount_value * 100
    ELSE 0

(* ------------------------------- state -------------------------------- *)
VARIABLES
    flights,          \* table flights: flight_id -> row
    bookings,         \* table bookings: booking_id -> row
    booking_details,  \* table booking_details: rows in detail_id order
    payments,         \* table payments: booking_id -> row
    promotions,       \* table promotions: promo_id -> row
    pc,               \* per slot: the statement the request executes next
    op,               \* per slot: the endpoint the request is for
    req,              \* per slot: the request body and parameters
    loc,              \* per slot: the handler's local variables
    resp,             \* per slot: the response sent, once pc = "done"
    pre,              \* per slot: the tables as they were when the request arrived
    ops,              \* requests started so far
    faults            \* booking_details INSERT failures so far

db == <<flights, bookings, booking_details, payments, promotions>>
vars == <<flights, bookings, booking_details, payments, promotions,
          pc, op, req, loc, resp, pre, ops, faults>>

Tables ==
    [flights |-> flights, bookings |-> bookings, booking_details |-> booking_details,
     payments |-> payments, promotions |-> promotions]

NoBooking ==
    [booking_id |-> 0, departure_flight_id |-> 0, return_flight_id |-> 0, contact_name |-> "",
     travel_class |-> "", total_amount |-> 0, payment_status |-> "", promo_code |-> "",
     is_round_trip |-> 0]

NoReq ==
    [departureFlightId |-> NoRef, returnFlightId |-> NoRef, isRoundTrip |-> FALSE,
     hasCustomerInfo |-> FALSE, customerInfo |-> [fullName |-> "", seatClass |-> ""],
     passengers |-> <<>>,
     promoCode |-> "", hasTotalAmount |-> FALSE, totalAmount |-> 0,
     paymentMethod |-> "", transactionInfo |-> "",
     bookingId |-> 0, paymentStatus |-> "", method |-> "",
     code |-> "", promotion |-> NoPromo,
     flightRef |-> NoRef, hasFlightInfo |-> FALSE, flight |-> NoFlight]

NoLoc ==
    [departureFlight |-> NoFlight, returnFlight |-> NoFlight,
     calculated |-> FALSE, calculatedAmount |-> 0, finalAmount |-> 0,
     promo |-> NoPromo, bookingId |-> 0, i |-> 1,
     currentBooking |-> NoBooking, passengerCount |-> 0, existingPayment |-> FALSE,
     existingFlight |-> NoFlight]

NoResp == [status |-> 0, error |-> "", available |-> 0, requested |-> 0,
           bookingId |-> 0, totalAmount |-> 0, discountType |-> "", discountValue |-> 0]

Reply(status, error) == [NoResp EXCEPT !.status = status, !.error = error]

Init ==
    /\ flights = SampleFlights
    /\ bookings = <<>>
    /\ booking_details = <<>>
    /\ payments = <<>>
    /\ promotions = SamplePromotions
    /\ pc = [p \in Procs |-> "idle"]
    /\ op = [p \in Procs |-> ""]
    /\ req = [p \in Procs |-> NoReq]
    /\ loc = [p \in Procs |-> NoLoc]
    /\ resp = [p \in Procs |-> NoResp]
    /\ pre = [p \in Procs |-> Tables]
    /\ ops = 0
    /\ faults = 0

\* the slot is free: no request, or a request that has been answered
Free(p) == pc[p] \in {"idle", "done"}
Quiescent == \A p \in Procs : Free(p)

\* a request arrives in slot p, as one of at most `most` requests
ArriveWithin(p, endpoint, r, first, most) ==
    /\ Free(p)
    /\ ops < most
    /\ ops' = ops + 1
    /\ op' = [op EXCEPT ![p] = endpoint]
    /\ req' = [req EXCEPT ![p] = r]
    /\ loc' = [loc EXCEPT ![p] = NoLoc]
    /\ resp' = [resp EXCEPT ![p] = NoResp]
    /\ pre' = [pre EXCEPT ![p] = Tables]
    /\ pc' = [pc EXCEPT ![p] = first]
    /\ UNCHANGED <<db, faults>>

\* a request arrives in slot p
Arrive(p, endpoint, r, first) == ArriveWithin(p, endpoint, r, first, MaxOps)

\* the handler of slot p sends its response and ends
Respond(p, r) ==
    /\ resp' = [resp EXCEPT ![p] = r]
    /\ pc' = [pc EXCEPT ![p] = "done"]

\* the handler of slot p goes on to statement next
Goto(p, next) ==
    /\ pc' = [pc EXCEPT ![p] = next]
    /\ UNCHANGED resp

\* table t with the row r under key k
Put(t, k, r) == [x \in DOMAIN t \cup {k} |-> IF x = k THEN r ELSE t[x]]
\* table t without key k
Drop(t, k) == [x \in DOMAIN t \ {k} |-> t[x]]

(* ------------------------- POST /api/bookings -------------------------- *)
BookingIds == 1 .. MaxBookings

SeatClassOf(r) == OrStr(r.customerInfo.seatClass, "ECONOMY")

\* on to the identifier loop without the Math.max(0, finalAmount)
GenerateWithoutClamp(p, l) ==
    /\ loc' = [loc EXCEPT ![p] = l]
    /\ Goto(p, "c_generateId")

\* Math.max(0, finalAmount), then on to the identifier loop
ClampAndGenerate(p, l) ==
    /\ loc' = [loc EXCEPT ![p] = [l EXCEPT !.finalAmount = Max(0, l.finalAmount)]]
    /\ Goto(p, "c_generateId")

\* a handler that never takes the caller's total
NeverUsesSuppliedTotal(r) == FALSE

\* totalAmount !== undefined && totalAmount !== null
UsesSuppliedTotal(r) == r.hasTotalAmount

\* a seat check that looks at the departure flight only
SeatCheckDepartureOnly(dep, ret, hasReturn, seatField, totalPassengers) ==
    IF dep[seatField] < totalPassengers THEN "departure" ELSE ""

\* the two seat checks: the leg that has too few seats of the class, "" if none
SeatCheck(dep, ret, hasReturn, seatField, totalPassengers) ==
    IF dep[seatField] < totalPassengers THEN "departure"
    ELSE IF hasReturn /\ ret[seatField] < totalPassengers THEN "return"
    ELSE ""

\* the code between the flight lookups and the next database statement: the
\* seat checks of both legs, then the total (supplied or calculated)
AfterFlightLookup(p, dep, ret) ==
    LET r == req[p]
        totalPassengers == Len(r.passengers)
        seatField == SeatFieldOf(SeatClassOf(r))
        hasReturn == r.isRoundTrip /\ ret # NoFlight
        short == SeatCheck(dep, ret, hasReturn, seatField, totalPassengers)
        l == [loc[p] EXCEPT !.departureFlight = dep, !.returnFlight = ret]
        calculatedAmount ==
            CalculatedAmount(r.passengers, BasePriceOf(dep, SeatClassOf(r)),
                             hasReturn, BasePriceOf(ret, SeatClassOf(r)))
    IN  IF short = "departure"
        THEN /\ Respond(p, [Reply(400, "Not enough seats available on departure flight")
                               EXCEPT !.available = dep[seatField],
                                      !.requested = totalPassengers])
             /\ loc' = [loc EXCEPT ![p] = l]
        ELSE IF short = "return"
        THEN /\ Respond(p, [Reply(400, "Not enough seats available on return flight")
                               EXCEPT !.available = ret[seatField],
                                      !.requested = totalPassengers])
             /\ loc' = [loc EXCEPT ![p] = l]
        ELSE IF UsesSuppliedTotal(r)
        THEN ClampAndGenerate(p, [l EXCEPT !.finalAmount = r.totalAmount])
        ELSE IF r.promoCode # ""
        THEN /\ loc' = [loc EXCEPT ![p] = [l EXCEPT !.calculated = TRUE,
                                                    !.calculatedAmount = calculatedAmount,
                                                    !.finalAmount = calculatedAmount]]
             /\ Goto(p, "c_getPromo")
        ELSE ClampAndGenerate(p, [l EXCEPT !.calculated = TRUE,
                                           !.calculatedAmount = calculatedAmount,
                                           !.finalAmount = calculatedAmount])

\* validation of the body, then the departure flight lookup
c_getDeparture(p) ==
    /\ pc[p] = "c_getDeparture"
    /\ LET r == req[p]
           dep == FindFlight(flights, r.departureFlightId)
       IN  IF RefMissing(r.departureFlightId) \/ ~r.hasCustomerInfo \/ Len(r.passengers) = 0
           THEN Respond(p, Reply(400, "Missing required booking information"))
                /\ UNCHANGED loc
           ELSE IF dep = NoFlight
           THEN Respond(p, Reply(404, "Departure flight not found")) /\ UNCHANGED loc
           ELSE IF r.isRoundTrip /\ ~RefMissing(r.returnFlightId)
           THEN /\ loc' = [loc EXCEPT ![p].departureFlight = dep]
                /\ Goto(p, "c_getReturn")
           ELSE AfterFlightLookup(p, dep, NoFlight)
    /\ UNCHANGED <<db, op, req, pre, ops, faults>>

\* the return flight lookup of a round trip
c_getReturn(p) ==
    /\ pc[p] = "c_getReturn"
    /\ LET ret == FindFlight(flights, req[p].returnFlightId)
       IN  IF ret = NoFlight
           THEN Respond(p, Reply(404, "Return flight not found")) /\ UNCHANGED loc
           ELSE AfterFlightLookup(p, loc[p].departureFlight, ret)
    /\ UNCHANGED <<db, op, req, pre, ops, faults>>

\* the promotion lookup; a usable promotion sets the discounted amount
c_getPromo(p) ==
    /\ pc[p] = "c_getPromo"
    /\ LET promo == FindUsablePromo(promotions, req[p].promoCode, Today)
           l == loc[p]
       IN  IF promo # NoPromo
           THEN /\ loc' = [loc EXCEPT ![p] =
                              [l EXCEPT !.promo = promo,
                                        !.finalAmount = l.calculatedAmount
                                                        - DiscountApplied(promo, l.calculatedAmount)]]
                /\ Goto(p, "c_updatePromo")
           ELSE ClampAndGenerate(p, l)
    /\ UNCHANGED <<db, op, req, pre, ops, faults>>

\* UPDATE promotions SET used_count = used_count + 1
c_updatePromo(p) ==
    /\ pc[p] = "c_updatePromo"
    /\ promotions' = IncrementUsedCount(promotions, loc[p].promo.promo_id)
    /\ ClampAndGenerate(p, loc[p])
    /\ UNCHANGED <<flights, bookings, booking_details, payments, op, req, pre, ops, faults>>

\* an identifier loop whose generator returns the same token at every call
c_generateIdSameToken(p) ==
    /\ pc[p] = "c_generateId"
    /\ \E bookingId \in {1} :
          IF bookingId \in DOMAIN bookings
          THEN UNCHANGED <<pc, loc, resp>>
          ELSE /\ loc' = [loc EXCEPT ![p].bookingId = bookingId]
               /\ Goto(p, "c_updateDepartureSeats")
    /\ UNCHANGED <<db, op, req, pre, ops, faults>>

\* generateBookingId and the lookup of the token; a token in use is drawn again
c_generateId(p) ==
    /\ pc[p] = "c_generateId"
    /\ \E bookingId \in BookingIds :
          IF bookingId \in DOMAIN bookings
          THEN UNCHANGED <<pc, loc, resp>>
          ELSE /\ loc' = [loc EXCEPT ![p].bookingId = bookingId]
               /\ Goto(p, "c_updateDepartureSeats")
    /\ UNCHANGED <<db, op, req, pre, ops, faults>>

\* a departure UPDATE that writes the counts the handler read at the lookup,
\* less the passengers, in place of counting down in the statement
c_updateDepartureSeatsFromRead(p) ==
    /\ pc[p] = "c_updateDepartureSeats"
    /\ LET field == SeatFieldOf(SeatClassOf(req[p]))
           read == loc[p].departureFlight
           n == Len(req[p].passengers)
       IN  flights' = [f \in DOMAIN flights |->
                          IF flights[f].flight_id = read.flight_id
                          THEN [flights[f] EXCEPT ![field] = read[field] - n,
                                                  !.available_seats = read.available_seats - n]
                          ELSE flights[f]]
    /\ IF req[p].isRoundTrip /\ loc[p].returnFlight # NoFlight
       THEN Goto(p, "c_updateReturnSeats")
       ELSE Goto(p, "c_insertBooking")
    /\ UNCHANGED <<bookings, booking_details, payments, promotions,
                   op, req, loc, pre, ops, faults>>

\* UPDATE flights ... of the departure flight
c_updateDepartureSeats(p) ==
    /\ pc[p] = "c_updateDepartureSeats"
    /\ flights' = DecrementSeats(flights, loc[p].departureFlight.flight_id,
                                 SeatFieldOf(SeatClassOf(req[p])), Len(req[p].passengers))
    /\ IF req[p].isRoundTrip /\ loc[p].returnFlight # NoFlight
       THEN Goto(p, "c_updateReturnSeats")
       ELSE Goto(p, "c_insertBooking")
    /\ UNCHANGED <<bookings, booking_details, payments, promotions,
                   op, req, loc, pre, ops, faults>>

\* UPDATE flights ... of the return flight
c_updateReturnSeats(p) ==
    /\ pc[p] = "c_updateReturnSeats"
    /\ flights' = DecrementSeats(flights, loc[p].returnFlight.flight_id,
                                 SeatFieldOf(SeatClassOf(req[p])), Len(req[p].passengers))
    /\ Goto(p, "c_insertBooking")
    /\ UNCHANGED <<bookings, booking_details, payments, promotions,
                   op, req, loc, pre, ops, faults>>

PaymentMethods == {"bank_transfer", "momo"}

\* the head of the passenger loop for passenger i: the fullName check that
\* answers 400, else the INSERT of that passenger's row comes next
PassengerLoop(p, i) ==
    IF req[p].passengers[i].fullName = ""
    THEN /\ Respond(p, Reply(400, "Passenger data missing required fields"))
         /\ UNCHANGED loc
    ELSE /\ loc' = [loc EXCEPT ![p].i = i]
         /\ Goto(p, "c_insertDetail")

\* the code after the passenger loop: the payment method check, whose
\* assignment to the const paymentMethod throws, or the 201 response
AfterPassengerLoop(p) ==
    /\ UNCHANGED loc
    /\ IF req[p].paymentMethod # ""
       THEN IF req[p].paymentMethod \notin PaymentMethods
            THEN Respond(p, Reply(500, "Failed to create booking"))
            ELSE Goto(p, "c_insertPayment")
       ELSE Respond(p, [Reply(201, "") EXCEPT !.bookingId = loc[p].bookingId,
                                               !.totalAmount = loc[p].finalAmount])

\* a flag that marks every booking as a round trip
RoundTripFlagAlwaysSet(r) == 1

\* finalIsRoundTrip ? 1 : 0
RoundTripFlag(r) == IF r.isRoundTrip THEN 1 ELSE 0

\* a bookings table without a key: an INSERT of a stored booking_id goes through
BookingIdNeverTaken(t, k) == FALSE

\* booking_id TEXT PRIMARY KEY: a row with this booking_id is stored
BookingIdTaken(t, k) == k \in DOMAIN t

\* a handler that may insert the booking row before it takes the seats: the
\* INSERT is also possible where the departure UPDATE stands, and the place
\* of the INSERT then goes on to the passenger loop
c_insertBookingEarly(p) ==
    /\ pc[p] \in {"c_updateDepartureSeats", "c_insertBooking"}
    /\ LET r == req[p]
           l == loc[p]
           row == [booking_id |-> l.bookingId,
                   departure_flight_id |-> l.departureFlight.flight_id,
                   return_flight_id |-> IF r.isRoundTrip THEN l.returnFlight.flight_id ELSE 0,
                   contact_name |-> r.customerInfo.fullName,
                   travel_class |-> SeatClassOf(r),
                   total_amount |-> l.finalAmount,
                   payment_status |-> "unpaid",
                   promo_code |-> r.promoCode,
                   is_round_trip |-> IF r.isRoundTrip THEN 1 ELSE 0]
       IN  IF pc[p] = "c_updateDepartureSeats"
           THEN /\ l.bookingId \notin DOMAIN bookings
                /\ bookings' = Put(bookings, l.bookingId, row)
                /\ UNCHANGED <<pc, loc, resp>>
           ELSE /\ bookings' = Put(bookings, l.bookingId, row)
                /\ PassengerLoop(p, 1)
    /\ UNCHANGED <<flights, booking_details, payments, promotions, op, req, pre, ops, faults>>

\* INSERT INTO bookings; evaluating returnFlight.flight_id throws when the
\* round trip has no return flight, and the INSERT fails on a duplicate
\* booking_id or a NULL contact_name
c_insertBooking(p) ==
    /\ pc[p] = "c_insertBooking"
    /\ LET r == req[p]
           l == loc[p]
           row == [booking_id |-> l.bookingId,
                   departure_flight_id |-> l.departureFlight.flight_id,
                   return_flight_id |-> IF r.isRoundTrip THEN l.returnFlight.flight_id ELSE 0,
                   contact_name |-> r.customerInfo.fullName,
                   travel_class |-> SeatClassOf(r),
                   total_amount |-> l.finalAmount,
                   payment_status |-> "unpaid",
                   promo_code |-> r.promoCode,
                   is_round_trip |-> RoundTripFlag(r)]
       IN  IF r.isRoundTrip /\ l.returnFlight = NoFlight
           THEN /\ Respond(p, Reply(500, "Failed to create booking"))
                /\ UNCHANGED <<bookings, loc>>
           ELSE IF BookingIdTaken(bookings, l.bookingId) \/ r.customerInfo.fullName = ""
           THEN /\ Respond(p, Reply(500, "Failed to create booking due to database constraint"))
                /\ UNCHANGED <<bookings, loc>>
           ELSE /\ bookings' = Put(bookings, l.bookingId, row)
                /\ PassengerLoop(p, 1)
    /\ UNCHANGED <<flights, booking_details, payments, promotions, op, req, pre, ops, faults>>

\* INSERT INTO booking_details for passenger i succeeds
c_insertDetail(p) ==
    /\ pc[p] = "c_insertDetail"
    /\ LET i == loc[p].i
           passenger == req[p].passengers[i]
           calc == IF loc[p].calculated THEN CalculatedPassengerType(passenger) ELSE ""
       IN  /\ booking_details' =
                  Append(booking_details,
                         [booking_id |-> loc[p].bookingId,
                          full_name |-> passenger.fullName,
                          passenger_type |-> PersistedPassengerType(passenger, calc)])
           /\ IF i < Len(req[p].passengers)
              THEN PassengerLoop(p, i + 1)
              ELSE AfterPassengerLoop(p)
    /\ UNCHANGED <<flights, bookings, payments, promotions, op, req, pre, ops, faults>>

\* INSERT INTO booking_details for passenger i fails: the catch block runs
c_insertDetailFails(p) ==
    /\ pc[p] = "c_insertDetail"
    /\ faults < MaxFaults
    /\ faults' = faults + 1
    /\ Goto(p, "c_rollback")
    /\ UNCHANGED <<db, op, req, loc, pre, ops>>

\* a catch block that throws the error on without deleting the booking
c_rollbackKeepsBooking(p) ==
    /\ pc[p] = "c_rollback"
    /\ Respond(p, Reply(500, "Failed to create booking"))
    /\ UNCHANGED <<db, op, req, loc, pre, ops, faults>>

\* DELETE FROM bookings WHERE booking_id = ?, then the error is thrown on
c_rollback(p) ==
    /\ pc[p] = "c_rollback"
    /\ bookings' = Drop(bookings, loc[p].bookingId)
    /\ Respond(p, Reply(500, "Failed to create booking"))
    /\ UNCHANGED <<flights, booking_details, payments, promotions,
                   op, req, loc, pre, ops, faults>>

\* INSERT INTO payments; booking_id is the primary key
c_insertPayment(p) ==
    /\ pc[p] = "c_insertPayment"
    /\ IF loc[p].bookingId \in DOMAIN payments
       THEN /\ Respond(p, Reply(500, "Failed to create booking due to database constraint"))
            /\ UNCHANGED payments
       ELSE /\ payments' = Put(payments, loc[p].bookingId,
                               [method |-> req[p].paymentMethod,
                                transaction_info |-> req[p].transactionInfo])
            /\ Respond(p, [Reply(201, "") EXCEPT !.bookingId = loc[p].bookingId,
                                                 !.totalAmount = loc[p].finalAmount])
    /\ UNCHANGED <<flights, bookings, booking_details, promotions,
                   op, req, loc, pre, ops, faults>>

CreateBookingStep(p) ==
    \/ c_getDeparture(p)
    \/ c_getReturn(p)
    \/ c_getPromo(p)
    \/ c_updatePromo(p)
    \/ c_generateId(p)
    \/ c_updateDepartureSeats(p)
    \/ c_updateReturnSeats(p)
    \/ c_insertBooking(p)
    \/ c_insertDetail(p)
    \/ c_insertDetailFails(p)
    \/ c_rollback(p)
    \/ c_insertPayment(p)

(* ------------------- PATCH /api/bookings/:id/payment ------------------- *)
\* COUNT(*) FROM booking_details WHERE booking_id = ?
CountDetails(details, bookingId) ==
    Cardinality({k \in DOMAIN details : details[k].booking_id = bookingId})

\* a status write that also clears the promo code of the booking
SetStatusAndClearPromo(bk, bookingId, paymentStatus) ==
    [b \in DOMAIN bk |->
        IF b = bookingId
        THEN [bk[b] EXCEPT !.payment_status = paymentStatus, !.promo_code = ""]
        ELSE bk[b]]

\* UPDATE bookings SET payment_status = ? WHERE booking_id = ?
SetPaymentStatus(bk, bookingId, paymentStatus) ==
    [b \in DOMAIN bk |->
        IF b = bookingId THEN [bk[b] EXCEPT !.payment_status = paymentStatus] ELSE bk[b]]

\* conditions that release the seats whatever the current status is
u_afterBookingAnyStatus(p, currentBooking) ==
    LET paymentStatus == req[p].paymentStatus
    IN  IF /\ paymentStatus = "paid"
           /\ currentBooking.payment_status # "paid"
           /\ currentBooking.promo_code # ""
        THEN Goto(p, "u_getPromo")
        ELSE IF paymentStatus \in {"cancelled", "refunded"}
        THEN Goto(p, "u_countPassengers")
        ELSE Goto(p, "u_setStatus")

\* the two conditions that follow the booking lookup
u_afterBooking(p, currentBooking) ==
    LET paymentStatus == req[p].paymentStatus
    IN  IF /\ paymentStatus = "paid"
           /\ currentBooking.payment_status # "paid"
           /\ currentBooking.promo_code # ""
        THEN Goto(p, "u_getPromo")
        ELSE IF /\ paymentStatus \in {"cancelled", "refunded"}
                /\ currentBooking.payment_status \in {"paid", "unpaid"}
        THEN Goto(p, "u_countPassengers")
        ELSE Goto(p, "u_setStatus")

\* the paymentStatus check, then SELECT * FROM bookings WHERE booking_id = ?
u_getBooking(p) ==
    /\ pc[p] = "u_getBooking"
    /\ IF req[p].paymentStatus = ""
       THEN Respond(p, Reply(400, "Payment status is required")) /\ UNCHANGED loc
       ELSE IF req[p].bookingId \notin DOMAIN bookings
       THEN Respond(p, Reply(404, "Booking not found")) /\ UNCHANGED loc
       ELSE /\ loc' = [loc EXCEPT ![p].currentBooking = bookings[req[p].bookingId]]
            /\ u_afterBooking(p, bookings[req[p].bookingId])
    /\ UNCHANGED <<db, op, req, pre, ops, faults>>

\* SELECT * FROM promotions WHERE code = ?
u_getPromo(p) ==
    /\ pc[p] = "u_getPromo"
    /\ LET promo == FindPromoByCode(promotions, loc[p].currentBooking.promo_code)
       IN  /\ loc' = [loc EXCEPT ![p].promo = promo]
           /\ IF promo # NoPromo THEN Goto(p, "u_updatePromo") ELSE Goto(p, "u_setStatus")
    /\ UNCHANGED <<db, op, req, pre, ops, faults>>

\* UPDATE promotions SET used_count = used_count + 1
u_updatePromo(p) ==
    /\ pc[p] = "u_updatePromo"
    /\ promotions' = IncrementUsedCount(promotions, loc[p].promo.promo_id)
    /\ Goto(p, "u_setStatus")
    /\ UNCHANGED <<flights, bookings, booking_details, payments,
                   op, req, loc, pre, ops, faults>>

\* SELECT COUNT(*) FROM booking_details WHERE booking_id = ?
u_countPassengers(p) ==
    /\ pc[p] = "u_countPassengers"
    /\ loc' = [loc EXCEPT ![p].passengerCount = CountDetails(booking_details, req[p].bookingId)]
    /\ Goto(p, "u_restoreDeparture")
    /\ UNCHANGED <<db, op, req, pre, ops, faults>>

\* UPDATE flights ... + passengerCount of the departure flight
u_restoreDeparture(p) ==
    /\ pc[p] = "u_restoreDeparture"
    /\ LET currentBooking == loc[p].currentBooking
       IN  /\ flights' = RestoreSeats(flights, currentBooking.departure_flight_id,
                                      SeatFieldOf(OrStr(currentBooking.travel_class, "ECONOMY")),
                                      loc[p].passengerCount)
           /\ IF currentBooking.is_round_trip = 1 /\ currentBooking.return_flight_id # 0
              THEN Goto(p, "u_restoreReturn")
              ELSE Goto(p, "u_setStatus")
    /\ UNCHANGED <<bookings, booking_details, payments, promotions,
                   op, req, loc, pre, ops, faults>>

\* a return-leg step that leaves the return flight as it is
u_skipRestoreReturn(p) ==
    /\ pc[p] = "u_restoreReturn"
    /\ Goto(p, "u_setStatus")
    /\ UNCHANGED <<db, op, req, loc, pre, ops, faults>>

\* UPDATE flights ... + passengerCount of the return flight
u_restoreReturn(p) ==
    /\ pc[p] = "u_restoreReturn"
    /\ LET currentBooking == loc[p].currentBooking
       IN  flights' = RestoreSeats(flights, currentBooking.return_flight_id,
                                   SeatFieldOf(OrStr(currentBooking.travel_class, "ECONOMY")),
                                   loc[p].passengerCount)
    /\ Goto(p, "u_setStatus")
    /\ UNCHANGED <<bookings, booking_details, payments, promotions,
                   op, req, loc, pre, ops, faults>>

\* UPDATE bookings SET payment_status = ?; result.changes === 0 answers 404
u_setStatus(p) ==
    /\ pc[p] = "u_setStatus"
    /\ bookings' = SetPaymentStatus(bookings, req[p].bookingId, req[p].paymentStatus)
    /\ IF req[p].bookingId \in DOMAIN bookings
       THEN Respond(p, Reply(200, ""))
       ELSE Respond(p, Reply(404, "Booking not found"))
    /\ UNCHANGED <<flights, booking_details, payments, promotions,
                   op, req, loc, pre, ops, faults>>

UpdatePaymentStatusStep(p) ==
    \/ u_getBooking(p)
    \/ u_getPromo(p)
    \/ u_updatePromo(p)
    \/ u_countPassengers(p)
    \/ u_restoreDeparture(p)
    \/ u_restoreReturn(p)
    \/ u_setStatus(p)

(* ---------------- PATCH /api/admin/bookings/:id/payment ---------------- *)
validStatuses == {"unpaid", "paid", "refunded", "cancelled"}

\* conditions that count a use of the promotion also for a booking already paid
a_afterBookingCountsAgain(p, currentBooking) ==
    LET paymentStatus == req[p].paymentStatus
    IN  IF paymentStatus = "paid" /\ currentBooking.promo_code # ""
        THEN Goto(p, "a_getPromo")
        ELSE IF /\ paymentStatus \in {"cancelled", "refunded"}
                /\ currentBooking.payment_status \in {"paid", "unpaid"}
        THEN Goto(p, "a_countPassengers")
        ELSE Goto(p, "a_setStatus")

\* the two conditions that follow the booking lookup
a_afterBooking(p, currentBooking) ==
    LET paymentStatus == req[p].paymentStatus
    IN  IF /\ paymentStatus = "paid"
           /\ currentBooking.payment_status # "paid"
           /\ currentBooking.promo_code # ""
        THEN Goto(p, "a_getPromo")
        ELSE IF /\ paymentStatus \in {"cancelled", "refunded"}
                /\ currentBooking.payment_status \in {"paid", "unpaid"}
        THEN Goto(p, "a_countPassengers")
        ELSE Goto(p, "a_setStatus")

\* the paymentStatus checks, then SELECT * FROM bookings WHERE booking_id = ?
a_getBooking(p) ==
    /\ pc[p] = "a_getBooking"
    /\ IF req[p].paymentStatus = ""
       THEN Respond(p, Reply(400, "Payment status is required")) /\ UNCHANGED loc
       ELSE IF req[p].paymentStatus \notin validStatuses
       THEN Respond(p, Reply(400, "Invalid payment status")) /\ UNCHANGED loc
       ELSE IF req[p].bookingId \notin DOMAIN bookings
       THEN Respond(p, Reply(404, "Booking not found")) /\ UNCHANGED loc
       ELSE /\ loc' = [loc EXCEPT ![p].currentBooking = bookings[req[p].bookingId]]
            /\ a_afterBooking(p, bookings[req[p].bookingId])
    /\ UNCHANGED <<db, op, req, pre, ops, faults>>

\* SELECT * FROM promotions WHERE code = ?
a_getPromo(p) ==
    /\ pc[p] = "a_getPromo"
    /\ LET promo == FindPromoByCode(promotions, loc[p].currentBooking.promo_code)
       IN  /\ loc' = [loc EXCEPT ![p].promo = promo]
           /\ IF promo # NoPromo THEN Goto(p, "a_updatePromo") ELSE Goto(p, "a_setStatus")
    /\ UNCHANGED <<db, op, req, pre, ops, faults>>

\* UPDATE promotions SET used_count = used_count + 1
a_updatePromo(p) ==
    /\ pc[p] = "a_updatePromo"
    /\ promotions' = IncrementUsedCount(promotions, loc[p].promo.promo_id)
    /\ Goto(p, "a_setStatus")
    /\ UNCHANGED <<flights, bookings, booking_details, payments,
                   op, req, loc, pre, ops, faults>>

\* SELECT COUNT(*) FROM booking_details WHERE booking_id = ?
a_countPassengers(p) ==
    /\ pc[p] = "a_countPassengers"
    /\ loc' = [loc EXCEPT ![p].passengerCount = CountDetails(booking_details, req[p].bookingId)]
    /\ Goto(p, "a_restoreDeparture")
    /\ UNCHANGED <<db, op, req, pre, ops, faults>>

\* UPDATE flights ... + passengerCount of the departure flight
a_restoreDeparture(p) ==
    /\ pc[p] = "a_restoreDeparture"
    /\ LET currentBooking == loc[p].currentBooking
       IN  /\ flights' = RestoreSeats(flights, currentBooking.departure_flight_id,
                                      SeatFieldOf(OrStr(currentBooking.travel_class, "ECONOMY")),
                                      loc[p].passengerCount)
           /\ IF currentBooking.is_round_trip = 1 /\ currentBooking.return_flight_id # 0
              THEN Goto(p, "a_restoreReturn")
              ELSE Goto(p, "a_setStatus")
    /\ UNCHANGED <<bookings, booking_details, payments, promotions,
                   op, req, loc, pre, ops, faults>>

\* a return-leg step of the admin endpoint that leaves the return flight as
\* it is
a_skipRestoreReturn(p) ==
    /\ pc[p] = "a_restoreReturn"
    /\ Goto(p, "a_setStatus")
    /\ UNCHANGED <<db, op, req, loc, pre, ops, faults>>

\* UPDATE flights ... + passengerCount of the return flight
a_restoreReturn(p) ==
    /\ pc[p] = "a_restoreReturn"
    /\ LET currentBooking == loc[p].currentBooking
       IN  flights' = RestoreSeats(flights, currentBooking.return_flight_id,
                                   SeatFieldOf(OrStr(currentBooking.travel_class, "ECONOMY")),
                                   loc[p].passengerCount)
    /\ Goto(p, "a_setStatus")
    /\ UNCHANGED <<bookings, booking_details, payments, promotions,
                   op, req, loc, pre, ops, faults>>

\* UPDATE bookings SET payment_status = ?; result.changes === 0 answers 404
a_setStatus(p) ==
    /\ pc[p] = "a_setStatus"
    /\ bookings' = SetPaymentStatus(bookings, req[p].bookingId, req[p].paymentStatus)
    /\ IF req[p].bookingId \in DOMAIN bookings
       THEN Respond(p, Reply(200, ""))
       ELSE Respond(p, Reply(404, "Booking not found"))
    /\ UNCHANGED <<flights, booking_details, payments, promotions,
                   op, req, loc, pre, ops, faults>>

AdminUpdatePaymentStatusStep(p) ==
    \/ a_getBooking(p)
    \/ a_getPromo(p)
    \/ a_updatePromo(p)
    \/ a_countPassengers(p)
    \/ a_restoreDeparture(p)
    \/ a_restoreReturn(p)
    \/ a_setStatus(p)

(* ------------------------- POST /api/payments -------------------------- *)
\* the body checks, then SELECT * FROM bookings WHERE booking_id = ?
s_getBooking(p) ==
    /\ pc[p] = "s_getBooking"
    /\ IF req[p].bookingId = 0 \/ req[p].method = ""
       THEN Respond(p, Reply(400, "Missing required payment information"))
       ELSE IF req[p].method \notin PaymentMethods
       THEN Respond(p, Reply(400, "Invalid payment method"))
       ELSE IF req[p].bookingId \notin DOMAIN bookings
       THEN Respond(p, Reply(404, "Booking not found"))
       ELSE Goto(p, "s_getPayment")
    /\ UNCHANGED <<db, op, req, loc, pre, ops, faults>>

\* SELECT * FROM payments WHERE booking_id = ?
s_getPayment(p) ==
    /\ pc[p] = "s_getPayment"
    /\ loc' = [loc EXCEPT ![p].existingPayment = req[p].bookingId \in DOMAIN payments]
    /\ Goto(p, "s_writePayment")
    /\ UNCHANGED <<db, op, req, pre, ops, faults>>

\* UPDATE payments ... of the existing row, or INSERT INTO payments
s_writePayment(p) ==
    /\ pc[p] = "s_writePayment"
    /\ LET row == [method |-> req[p].method, transaction_info |-> req[p].transactionInfo]
           bookingId == req[p].bookingId
       IN  IF loc[p].existingPayment
           THEN /\ payments' = [b \in DOMAIN payments |->
                                   IF b = bookingId THEN row ELSE payments[b]]
                /\ Goto(p, "s_setPending")
           ELSE IF bookingId \in DOMAIN payments
           THEN /\ Respond(p, Reply(500, "Failed to save payment information"))
                /\ UNCHANGED payments
           ELSE /\ payments' = Put(payments, bookingId, row)
                /\ Goto(p, "s_setPending")
    /\ UNCHANGED <<flights, bookings, booking_details, promotions,
                   op, req, loc, pre, ops, faults>>

\* UPDATE bookings SET payment_status = 'pending' WHERE booking_id = ?
s_setPending(p) ==
    /\ pc[p] = "s_setPending"
    /\ bookings' = SetPaymentStatus(bookings, req[p].bookingId, "pending")
    /\ Respond(p, Reply(200, ""))
    /\ UNCHANGED <<flights, booking_details, payments, promotions,
                   op, req, loc, pre, ops, faults>>

SavePaymentStep(p) ==
    \/ s_getBooking(p)
    \/ s_getPayment(p)
    \/ s_writePayment(p)
    \/ s_setPending(p)

(* --------------------- POST /api/promotions/create --------------------- *)
PromotionStatuses == {"active", "inactive", "scheduled", "expired"}
DiscountTypes == {"percent", "fixed"}

\* the body checks, then SELECT * FROM promotions WHERE code = ?; the name is
\* always supplied in the model
p_getExisting(p) ==
    /\ pc[p] = "p_getExisting"
    /\ LET promotion == req[p].promotion
       IN  IF promotion.code = "" \/ promotion.discount_type = ""
           THEN Respond(p, Reply(400, "Missing required promotion information"))
           ELSE IF FindPromoByCode(promotions, promotion.code) # NoPromo
           THEN Respond(p, Reply(400, "Promotion code already exists"))
           ELSE Goto(p, "p_insert")
    /\ UNCHANGED <<db, op, req, loc, pre, ops, faults>>

\* INSERT INTO promotions with used_count 0 and status || 'active'; the INSERT
\* fails on the UNIQUE code and on the CHECKs of discount_type and status
p_insert(p) ==
    /\ pc[p] = "p_insert"
    /\ LET promotion == req[p].promotion
           promoStatus == OrStr(promotion.status, "active")
           promo_id == Len(promotions) + 1
       IN  IF \/ FindPromoByCode(promotions, promotion.code) # NoPromo
              \/ promotion.discount_type \notin DiscountTypes
              \/ promoStatus \notin PromotionStatuses
           THEN /\ Respond(p, Reply(500, "Failed to create promotion"))
                /\ UNCHANGED promotions
           ELSE /\ promotions' = Put(promotions, promo_id,
                                     [promotion EXCEPT !.promo_id = promo_id,
                                                       !.used_count = 0,
                                                       !.status = promoStatus])
                /\ Respond(p, Reply(201, ""))
    /\ UNCHANGED <<flights, bookings, booking_details, payments,
                   op, req, loc, pre, ops, faults>>

CreatePromotionStep(p) ==
    \/ p_getExisting(p)
    \/ p_insert(p)

(* -------------------- POST /api/promotions/validate -------------------- *)
\* new Date('YYYY-MM-DD'): the instant at which day d begins; instants are
\* counted in half days
StartOfDay(d) == 2 * d
\* new Date(): an instant in the course of the current day
Now == StartOfDay(Today) + 1

\* a validation that does not look at the status of the promotion
ValidateIgnoringStatus(pr, code, now) ==
    LET hit == {k \in DOMAIN pr : pr[k].code = code /\ pr[k].used_count < pr[k].usage_limit}
    IN  IF hit = {} THEN "Invalid or inactive promotion code"
        ELSE LET promo == pr[CHOOSE k \in hit : TRUE]
             IN  IF now < StartOfDay(promo.valid_from) THEN "Promotion code is not valid yet"
                 ELSE IF now > StartOfDay(promo.valid_to) THEN "Promotion code has expired"
                 ELSE ""

\* the decision of the validation: the error it answers, "" when the code is
\* accepted
ValidateOutcome(pr, code, now) ==
    LET hit == {k \in DOMAIN pr :
                    /\ pr[k].code = code
                    /\ pr[k].status # "inactive"
                    /\ pr[k].used_count < pr[k].usage_limit}
    IN  IF hit = {} THEN "Invalid or inactive promotion code"
        ELSE LET promo == pr[CHOOSE k \in hit : TRUE]
             IN  IF now < StartOfDay(promo.valid_from) THEN "Promotion code is not valid yet"
                 ELSE IF now > StartOfDay(promo.valid_to) THEN "Promotion code has expired"
                 ELSE ""

\* the code check, the promotion query and the two date checks
v_getPromo(p) ==
    /\ pc[p] = "v_getPromo"
    /\ LET code == req[p].code
           error == ValidateOutcome(promotions, code, Now)
           promo == FindPromoByCode(promotions, code)
       IN  IF code = ""
           THEN Respond(p, Reply(400, "Promotion code is required"))
           ELSE IF error # ""
           THEN Respond(p, Reply(404, error))
           ELSE Respond(p, [Reply(200, "") EXCEPT !.discountType = promo.discount_type,
                                                  !.discountValue = promo.discount_value])
    /\ UNCHANGED <<db, op, req, loc, pre, ops, faults>>

ValidatePromoCodeStep(p) == v_getPromo(p)

(* ---------------------- updatePromotionStatuses ------------------------ *)
\* the first UPDATE without its test for inactive
ExpireAlsoInactive(pr, now) ==
    [k \in DOMAIN pr |->
        IF StartOfDay(pr[k].valid_to) < now /\ pr[k].status # "expired"
        THEN [pr[k] EXCEPT !.status = "expired"]
        ELSE pr[k]]

\* UPDATE promotions SET status = 'expired' WHERE valid_to < ? AND status !=
\* 'expired' AND status != 'inactive'; the stored date sorts before the ISO
\* timestamp of every instant after the beginning of its day
ExpireStatuses(pr, now) ==
    [k \in DOMAIN pr |->
        IF /\ StartOfDay(pr[k].valid_to) < now
           /\ pr[k].status # "expired"
           /\ pr[k].status # "inactive"
        THEN [pr[k] EXCEPT !.status = "expired"]
        ELSE pr[k]]

\* UPDATE promotions SET status = 'active' WHERE valid_from <= ? AND
\* valid_to >= ? AND status = 'scheduled'
ActivateStatuses(pr, now) ==
    [k \in DOMAIN pr |->
        IF /\ StartOfDay(pr[k].valid_from) <= now
           /\ StartOfDay(pr[k].valid_to) >= now
           /\ pr[k].status = "scheduled"
        THEN [pr[k] EXCEPT !.status = "active"]
        ELSE pr[k]]

\* the first UPDATE of the sweep
w_expire(p) ==
    /\ pc[p] = "w_expire"
    /\ promotions' = ExpireStatuses(promotions, Now)
    /\ Goto(p, "w_activate")
    /\ UNCHANGED <<flights, bookings, booking_details, payments,
                   op, req, loc, pre, ops, faults>>

\* the second UPDATE of the sweep, after which the callback ends
w_activate(p) ==
    /\ pc[p] = "w_activate"
    /\ promotions' = ActivateStatuses(promotions, Now)
    /\ Goto(p, "done")
    /\ UNCHANGED <<flights, bookings, booking_details, payments,
                   op, req, loc, pre, ops, faults>>

updatePromotionStatusesStep(p) ==
    \/ w_expire(p)
    \/ w_activate(p)

(* -------------------- the operator's flight endpoints ------------------ *)
\* the four seats_* values of a request body, each || 0, added up
TotalSeats(flight) ==
    OrNum(flight.seats_economy, 0) + OrNum(flight.seats_premium_economy, 0)
    + OrNum(flight.seats_business, 0) + OrNum(flight.seats_first, 0)

\* flight_id INTEGER PRIMARY KEY AUTOINCREMENT: one above the highest id
NextFlightId(fl) ==
    LET ids == {fl[f].flight_id : f \in DOMAIN fl}
    IN  IF ids = {} THEN 1 ELSE (CHOOSE m \in ids : \A x \in ids : x <= m) + 1

\* POST /api/flights: the check of the required fields and the INSERT, which
\* stores the seats_* of the body as they are and their sum as available_seats;
\* flight_id is AUTOINCREMENT
f_insert(p) ==
    /\ pc[p] = "f_insert"
    /\ LET flight == req[p].flight
           flight_id == NextFlightId(flights)
       IN  IF \/ ~req[p].hasFlightInfo
              \/ flight.code = ""
              \/ flight.price_economy = 0
              \/ flight.seats_economy = 0
           THEN /\ Respond(p, Reply(400, "Missing required flight information"))
                /\ UNCHANGED flights
           ELSE /\ flights' = Put(flights, flight_id,
                                  [flight EXCEPT !.flight_id = flight_id,
                                                 !.available_seats = TotalSeats(flight)])
                /\ Respond(p, Reply(201, ""))
    /\ UNCHANGED <<bookings, booking_details, payments, promotions,
                   op, req, loc, pre, ops, faults>>

CreateFlightStep(p) == f_insert(p)

\* an update that stores the sum of the seats_* of the body as available_seats
UpdatedWithTotal(flight, flight_id) ==
    [flight EXCEPT !.flight_id = flight_id,
                   !.available_seats = TotalSeats(flight)]

\* the row UPDATE flights of PUT /api/flights/:id writes: each seats_* of the
\* body || 0, and available_seats as the body gives it
UpdatedById(flight, flight_id) ==
    [flight EXCEPT !.flight_id = flight_id]

\* PUT /api/flights/:id: the check of the required fields, among them
\* available_seats and not seats_economy, and the lookup of the flight
g_getFlight(p) ==
    /\ pc[p] = "g_getFlight"
    /\ LET flight == req[p].flight
           existingFlight == FindFlight(flights, req[p].flightRef)
       IN  IF \/ ~req[p].hasFlightInfo
              \/ flight.code = ""
              \/ flight.price_economy = 0
              \/ flight.available_seats = 0
           THEN Respond(p, Reply(400, "Missing required flight information"))
                /\ UNCHANGED loc
           ELSE IF existingFlight = NoFlight
           THEN Respond(p, Reply(404, "Flight not found")) /\ UNCHANGED loc
           ELSE /\ loc' = [loc EXCEPT ![p].existingFlight = existingFlight]
                /\ Goto(p, "g_update")
    /\ UNCHANGED <<db, op, req, pre, ops, faults>>

\* UPDATE flights ... WHERE flight_id = ?
g_update(p) ==
    /\ pc[p] = "g_update"
    /\ LET flight_id == loc[p].existingFlight.flight_id
       IN  flights' = [f \in DOMAIN flights |->
                         IF flights[f].flight_id = flight_id
                         THEN UpdatedById(req[p].flight, flight_id)
                         ELSE flights[f]]
    /\ Respond(p, Reply(200, ""))
    /\ UNCHANGED <<bookings, booking_details, payments, promotions,
                   op, req, loc, pre, ops, faults>>

UpdateFlightStep(p) ==
    \/ g_getFlight(p)
    \/ g_update(p)

\* PUT /api/flights/code/:flightCode: the check of the required fields, among
\* them seats_economy, and the lookup of the flight by its code
h_getFlight(p) ==
    /\ pc[p] = "h_getFlight"
    /\ LET flight == req[p].flight
           existingFlight == FindFlight(flights, req[p].flightRef)
       IN  IF \/ ~req[p].hasFlightInfo
              \/ flight.code = ""
              \/ flight.price_economy = 0
              \/ flight.seats_economy = 0
           THEN Respond(p, Reply(400, "Missing required flight information"))
                /\ UNCHANGED loc
           ELSE IF existingFlight = NoFlight
           THEN Respond(p, Reply(404, "Flight not found")) /\ UNCHANGED loc
           ELSE /\ loc' = [loc EXCEPT ![p].existingFlight = existingFlight]
                /\ Goto(p, "h_update")
    /\ UNCHANGED <<db, op, req, pre, ops, faults>>

\* UPDATE flights ... WHERE flight_id = ?, with total_seats as available_seats
h_update(p) ==
    /\ pc[p] = "h_update"
    /\ LET flight_id == loc[p].existingFlight.flight_id
       IN  flights' = [f \in DOMAIN flights |->
                         IF flights[f].flight_id = flight_id
                         THEN UpdatedWithTotal(req[p].flight, flight_id)
                         ELSE flights[f]]
    /\ Respond(p, Reply(200, ""))
    /\ UNCHANGED <<bookings, booking_details, payments, promotions,
                   op, req, loc, pre, ops, faults>>

UpdateFlightByCodeStep(p) ==
    \/ h_getFlight(p)
    \/ h_update(p)

\* the bookings table has the columns departure_flight_id and
\* return_flight_id and no column flight_id
BookingsColumns ==
    {"booking_id", "departure_flight_id", "return_flight_id", "contact_name",
     "travel_class", "total_amount", "payment_status", "promo_code", "is_round_trip"}

\* the result of a query that the database refuses
QueryError == -1

\* a count that finds no booking on any flight
CountNoBookings(bk, flight_id) == 0

\* SELECT COUNT(*) as count FROM bookings WHERE flight_id = ?
CountBookingsByFlightId(bk, flight_id) ==
    IF "flight_id" \in BookingsColumns
    THEN Cardinality({b \in DOMAIN bk : bk[b].departure_flight_id = flight_id})
    ELSE QueryError

\* the count of the flight's bookings and what follows it: the error of the
\* query reaches the catch block; a count above 0 is answered 400; else
\* DELETE FROM flights WHERE flight_id = ?
DeleteUnlessBooked(p) ==
    LET flight_id == loc[p].existingFlight.flight_id
        count == CountBookingsByFlightId(bookings, flight_id)
    IN  IF count = QueryError
        THEN Respond(p, Reply(500, "Failed to delete flight")) /\ UNCHANGED flights
        ELSE IF count > 0
        THEN Respond(p, Reply(400, "Cannot delete flight with existing bookings"))
             /\ UNCHANGED flights
        ELSE /\ flights' = [f \in {x \in DOMAIN flights : flights[x].flight_id # flight_id}
                               |-> flights[f]]
             /\ Respond(p, Reply(200, ""))

\* DELETE /api/flights/:id: the lookup of the flight
d_getFlight(p) ==
    /\ pc[p] = "d_getFlight"
    /\ LET existingFlight == FindFlight(flights, req[p].flightRef)
       IN  IF existingFlight = NoFlight
           THEN Respond(p, Reply(404, "Flight not found")) /\ UNCHANGED loc
           ELSE /\ loc' = [loc EXCEPT ![p].existingFlight = existingFlight]
                /\ Goto(p, "d_countBookings")
    /\ UNCHANGED <<db, op, req, pre, ops, faults>>

d_countBookings(p) ==
    /\ pc[p] = "d_countBookings"
    /\ DeleteUnlessBooked(p)
    /\ UNCHANGED <<bookings, booking_details, payments, promotions,
                   op, req, loc, pre, ops, faults>>

DeleteFlightStep(p) ==
    \/ d_getFlight(p)
    \/ d_countBookings(p)

\* DELETE /api/flights/code/:flightCode: the lookup of the flight by airline
\* code and flight number
e_getFlight(p) ==
    /\ pc[p] = "e_getFlight"
    /\ LET existingFlight == FindFlight(flights, req[p].flightRef)
       IN  IF existingFlight = NoFlight
           THEN Respond(p, Reply(404, "Flight not found")) /\ UNCHANGED loc
           ELSE /\ loc' = [loc EXCEPT ![p].existingFlight = existingFlight]
                /\ Goto(p, "e_countBookings")
    /\ UNCHANGED <<db, op, req, pre, ops, faults>>

e_countBookings(p) ==
    /\ pc[p] = "e_countBookings"
    /\ DeleteUnlessBooked(p)
    /\ UNCHANGED <<bookings, booking_details, payments, promotions,
                   op, req, loc, pre, ops, faults>>

DeleteFlightByCodeStep(p) ==
    \/ e_getFlight(p)
    \/ e_countBookings(p)

(* ------------------------------ requests ------------------------------ *)
Passenger(fullName, type, passengerType, dob) ==
    [fullName |-> fullName, type |-> type, passengerType |-> passengerType, dob |-> dob]

\* request passengers: an explicit passengerType, an explicit lower-case type,
\* a date of birth alone, an unrecognized type, and one without a fullName
Adult == Passenger("An", "", "ADULT", NoDob)
Child == Passenger("Binh", "child", "", NoDob)
Infant == Passenger("Chi", "", "", 1)
Senior == Passenger("Dung", "", "senior", NoDob)
Nameless == Passenger("", "", "ADULT", NoDob)

\* every list of 1 .. MaxPassengers passengers of the given kinds
PassengerLists(kinds) ==
    UNION {[1 .. n -> kinds] : n \in 1 .. MaxPassengers}

\* 1 .. MaxPassengers adults, and the longest list with a nameless last passenger
AdultLists ==
    {[i \in 1 .. n |-> Adult] : n \in 1 .. MaxPassengers}
    \cup {[i \in 1 .. MaxPassengers |-> IF i = MaxPassengers THEN Nameless ELSE Adult]}

BookingRequest(dep, rt, ret, seatClass, passengers, promoCode, hasTotal, total, method) ==
    [NoReq EXCEPT !.departureFlightId = dep, !.isRoundTrip = rt, !.returnFlightId = ret,
                  !.hasCustomerInfo = TRUE,
                  !.customerInfo = [fullName |-> "Khach", seatClass |-> seatClass],
                  !.passengers = passengers, !.promoCode = promoCode,
                  !.hasTotalAmount = hasTotal, !.totalAmount = total,
                  !.paymentMethod = method]

\* one-way; round trip to flight 2; round trip returning on the departure flight
GoodTrips == {<<FALSE, NoRef>>, <<TRUE, NumRef(2)>>, <<TRUE, NumRef(1)>>}
\* also a round trip whose return flight is left out or unknown, and a
\* one-way request that carries a return flight
Trips == GoodTrips \cup {<<TRUE, NoRef>>, <<TRUE, NumRef(9)>>, <<FALSE, NumRef(2)>>}

\* the booking requests of the sequential specification
Requests ==
    { BookingRequest(NumRef(1), t[1], t[2], "BUSINESS", passengers, x[1], FALSE, 0, x[2]) :
        t \in GoodTrips, passengers \in AdultLists,
        x \in {<<"", "">>, <<"SUMMER25", "momo">>} }

\* the booking requests of the fare specification: every fare input, and every
\* way of failing
FareRequests ==
    { BookingRequest(dep, t[1], t[2], seatClass, passengers, promoCode, FALSE, 0, "") :
        dep \in {NumRef(1), CodeRef("VJ1001")},
        t \in GoodTrips,
        seatClass \in {"", "ECONOMY", "PREMIUM_ECONOMY", "BUSINESS", "FIRST"},
        passengers \in PassengerLists({Adult, Child, Infant, Senior}),
        promoCode \in {"", "SUMMER25", "FIXED200K", "OLD10", "NEXT10", "FULL10", "NOPE"} }
    \cup
    { BookingRequest(dep, t[1], t[2], "ECONOMY", passengers, promoCode, hasTotal, total, method) :
        dep \in {NumRef(1), NumRef(9), NoRef},
        t \in Trips,
        passengers \in AdultLists \cup {<<>>},
        promoCode \in {"", "SUMMER25"},
        hasTotal \in BOOLEAN,
        total \in {-5000, 0, 12345600},
        method \in {"", "momo", "cash"} }

\* the booking requests of the race: the same class of the same flight
RaceRequests ==
    { BookingRequest(NumRef(1), FALSE, NoRef, "ECONOMY", passengers, "", FALSE, 0, "") :
        passengers \in {[i \in 1 .. n |-> Adult] : n \in 1 .. MaxPassengers} }
    \cup
    { BookingRequest(NumRef(1), TRUE, NumRef(2), "ECONOMY", <<Adult>>, "SUMMER25", FALSE, 0, "momo") }

PaymentStatuses == {"unpaid", "pending", "paid", "refunded", "cancelled"}

StatusRequest(bookingId, paymentStatus) ==
    [NoReq EXCEPT !.bookingId = bookingId, !.paymentStatus = paymentStatus]

\* the bookings a request is about: the stored ones, or one that is not stored
Targets == IF DOMAIN bookings = {} THEN {1} ELSE DOMAIN bookings

\* the status requests: every status of the enumeration, one outside it, none
StatusRequests ==
    { StatusRequest(b, st) : b \in Targets, st \in PaymentStatuses \cup {"done"} }
    \cup { StatusRequest(1, "") }

PaymentRequest(bookingId, method) ==
    [NoReq EXCEPT !.bookingId = bookingId, !.method = method]

PaymentRequests ==
    { PaymentRequest(b, "bank_transfer") : b \in Targets }
    \cup { PaymentRequest(1, "cash"), PaymentRequest(1, "") }

(* --------------------------- specifications --------------------------- *)
CreateBooking(p, R) == \E r \in R : Arrive(p, "CreateBooking", r, "c_getDeparture")
UpdatePaymentStatus(p, R) == \E r \in R : Arrive(p, "UpdatePaymentStatus", r, "u_getBooking")
AdminUpdatePaymentStatus(p, R) ==
    \E r \in R : Arrive(p, "AdminUpdatePaymentStatus", r, "a_getBooking")
SavePayment(p, R) == \E r \in R : Arrive(p, "SavePayment", r, "s_getBooking")

\* One request at a time: a request arrives only when the previous one has
\* been answered, so every handler runs from its first statement to its
\* response without interleaving.
Next ==
    \/ Quiescent /\ CreateBooking(1, Requests)
    \/ Quiescent /\ UpdatePaymentStatus(1, StatusRequests)
    \/ Quiescent /\ AdminUpdatePaymentStatus(1, StatusRequests)
    \/ Quiescent /\ SavePayment(1, PaymentRequests)
    \/ CreateBookingStep(1)
    \/ UpdatePaymentStatusStep(1)
    \/ AdminUpdatePaymentStatusStep(1)
    \/ SavePaymentStep(1)

Spec == Init /\ [][Next]_vars

\* One booking request on the freshly populated database: the first request
\* has arrived, and its handler runs to its response.
FareInit ==
    /\ flights = SampleFlights
    /\ bookings = <<>>
    /\ booking_details = <<>>
    /\ payments = <<>>
    /\ promotions = SamplePromotions
    /\ \E r \in FareRequests : req = [p \in Procs |-> IF p = 1 THEN r ELSE NoReq]
    /\ pc = [p \in Procs |-> IF p = 1 THEN "c_getDeparture" ELSE "idle"]
    /\ op = [p \in Procs |-> IF p = 1 THEN "CreateBooking" ELSE ""]
    /\ loc = [p \in Procs |-> NoLoc]
    /\ resp = [p \in Procs |-> NoResp]
    /\ pre = [p \in Procs |-> Tables]
    /\ ops = 1
    /\ faults = 0

FareNext == CreateBookingStep(1)

FareSpec == FareInit /\ [][FareNext]_vars

\* Concurrent booking requests: the statements of the handlers in both slots
\* interleave in every order.
RaceNext ==
    \E p \in Procs :
        \/ CreateBooking(p, RaceRequests)
        \/ CreateBookingStep(p)

RaceSpec == Init /\ [][RaceNext]_vars

\* One booking and its payment-status updates, one request at a time: slot 1
\* creates the booking, slot 2 updates its status for as long as the booking
\* is unpaid or paid.
Releasable ==
    /\ resp[1].status = 201
    /\ resp[1].bookingId \in DOMAIN bookings
    /\ bookings[resp[1].bookingId].payment_status \in {"unpaid", "paid"}

RoundTripRequests ==
    { StatusRequest(resp[1].bookingId, st) : st \in {"paid", "unpaid", "cancelled", "refunded"} }

\* the bookings of the round trip: both departure flights, three classes
RoundTripBookings ==
    Requests \cup
    { BookingRequest(NumRef(d), t[1], t[2], seatClass, passengers, "", FALSE, 0, "") :
        d \in FlightIds, t \in GoodTrips,
        seatClass \in {"ECONOMY", "PREMIUM_ECONOMY", "BUSINESS"},
        passengers \in AdultLists }

RoundTripNext ==
    \/ ops = 0 /\ CreateBooking(1, RoundTripBookings)
    \/ Quiescent /\ Releasable /\ UpdatePaymentStatus(2, RoundTripRequests)
    \/ Quiescent /\ Releasable /\ AdminUpdatePaymentStatus(2, RoundTripRequests)
    \/ CreateBookingStep(1)
    \/ UpdatePaymentStatusStep(2)
    \/ AdminUpdatePaymentStatusStep(2)

RoundTripSpec == Init /\ [][RoundTripNext]_vars

\* One booking that may carry a promo code, and its payment-status updates,
\* one request at a time.
PromoRequests ==
    { BookingRequest(NumRef(1), t[1], t[2], "ECONOMY", <<Adult>>, promoCode, FALSE, 0, t[3]) :
        t \in {<<FALSE, NoRef, "">>, <<TRUE, NumRef(2), "momo">>},
        promoCode \in {"", "SUMMER25", "FULL10", "NOPE"} }

PromoStatusRequests ==
    { StatusRequest(b, st) : b \in Targets, st \in {"paid", "unpaid", "refunded"} }

PromoNext ==
    \/ /\ ops = 0
       /\ \E r \in PromoRequests :
             ArriveWithin(1, "CreateBooking", r, "c_getDeparture", MaxPromoOps)
    \/ /\ ops > 0
       /\ \E r \in PromoStatusRequests :
             ArriveWithin(1, "UpdatePaymentStatus", r, "u_getBooking", MaxPromoOps)
    \/ /\ ops > 0
       /\ \E r \in PromoStatusRequests :
             ArriveWithin(1, "AdminUpdatePaymentStatus", r, "a_getBooking", MaxPromoOps)
    \/ CreateBookingStep(1)
    \/ UpdatePaymentStatusStep(1)
    \/ AdminUpdatePaymentStatusStep(1)

PromoSpec == Init /\ [][PromoNext]_vars

\* Promotions as the administrator creates them, validations and bookings
\* with their codes, one request at a time.
PromotionRequest(code, discount_type, window, status) ==
    [NoReq EXCEPT !.promotion =
        [NoPromo EXCEPT !.code = code, !.discount_type = discount_type,
                        !.discount_value = 10,
                        !.valid_from = window[1], !.valid_to = window[2],
                        !.usage_limit = 1, !.status = status]]

\* windows around the current day: running, on its last day, on its first
\* day, over, not begun
Windows ==
    {<<Today - 10, Today + 10>>, <<Today - 10, Today>>, <<Today, Today + 10>>,
     <<Today - 50, Today - 40>>, <<Today + 20, Today + 30>>}

PromotionRequests ==
    { PromotionRequest("VIP", "percent", window, status) :
        window \in Windows, status \in {"", "inactive", "scheduled", "expired"} }
    \cup { PromotionRequest("SUMMER25", "fixed", <<Today - 10, Today + 10>>, ""),
           PromotionRequest("", "fixed", <<Today - 10, Today + 10>>, ""),
           PromotionRequest("VIP", "percent", <<Today - 10, Today + 10>>, "paused") }

ValidateRequest(code) == [NoReq EXCEPT !.code = code]

ValidateRequests ==
    { ValidateRequest(code) :
        code \in {"", "NOPE", "VIP", "SUMMER25", "OLD10", "NEXT10", "FULL10"} }

ValidateBookings ==
    { BookingRequest(NumRef(1), FALSE, NoRef, "ECONOMY", <<Adult>>, promoCode, FALSE, 0, "") :
        promoCode \in {"VIP", "SUMMER25", "OLD10", "FULL10"} }
    \cup
    { BookingRequest(NumRef(1), TRUE, NumRef(2), "ECONOMY", <<Adult>>, "VIP", FALSE, 0, "momo") }

CreatePromotion(p, R) == \E r \in R : Arrive(p, "CreatePromotion", r, "p_getExisting")
ValidatePromoCode(p, R) == \E r \in R : Arrive(p, "ValidatePromoCode", r, "v_getPromo")

ValidateNext ==
    \/ ops = 0 /\ CreatePromotion(1, PromotionRequests)
    \/ Quiescent /\ ValidatePromoCode(1, ValidateRequests)
    \/ Quiescent /\ CreateBooking(1, ValidateBookings)
    \/ CreatePromotionStep(1)
    \/ ValidatePromoCodeStep(1)
    \/ CreateBookingStep(1)

ValidateSpec == Init /\ [][ValidateNext]_vars

\* The periodic sweep next to the requests: the administrator creates a
\* promotion, then slot 1 serves a booking and the payment updates of stored
\* bookings while the timer callback runs in slot 2; the statements of the
\* two slots interleave in every order.
SweepPromotions ==
    { PromotionRequest("VIP", "percent", window, status) :
        window \in Windows, status \in {"", "inactive", "scheduled", "expired"} }

SweepBookings ==
    { BookingRequest(NumRef(1), FALSE, NoRef, "ECONOMY", <<Adult>>, promoCode, FALSE, 0, "") :
        promoCode \in {"VIP", "SUMMER25"} }
    \cup
    { BookingRequest(NumRef(1), TRUE, NumRef(2), "ECONOMY", <<Adult>>, "VIP", FALSE, 0, "momo") }

SweepStatusRequests ==
    { StatusRequest(b, st) : b \in DOMAIN bookings, st \in {"paid", "refunded"} }

SweepNext ==
    \/ ops = 0 /\ CreatePromotion(1, SweepPromotions)
    \/ /\ ops > 0
       /\ bookings = <<>>
       /\ \E r \in SweepBookings :
             ArriveWithin(1, "CreateBooking", r, "c_getDeparture", MaxPromoOps)
    \/ /\ ops > 0
       /\ \E r \in SweepStatusRequests :
             ArriveWithin(1, "UpdatePaymentStatus", r, "u_getBooking", MaxPromoOps)
    \/ /\ ops > 0
       /\ pc[1] \notin {"p_getExisting", "p_insert"}
       /\ ArriveWithin(2, "updatePromotionStatuses", NoReq, "w_expire", MaxPromoOps)
    \/ CreatePromotionStep(1)
    \/ CreateBookingStep(1)
    \/ UpdatePaymentStatusStep(1)
    \/ updatePromotionStatusesStep(2)

SweepSpec == Init /\ [][SweepNext]_vars

\* The operator's flight endpoints and bookings, one request at a time.
FlightBody(seats_economy, seats_business, available_seats) ==
    [NoFlight EXCEPT !.code = "VN2000", !.price_economy = 800000,
                     !.seats_economy = seats_economy, !.seats_business = seats_business,
                     !.available_seats = available_seats]

\* bodies: consistent; an available_seats that is not the sum; a negative
\* seats_economy; no seats_economy
FlightBodies ==
    {FlightBody(2, 1, 3), FlightBody(2, 1, 9), FlightBody(-1, 1, 3), FlightBody(0, 1, 1)}

FlightRequest(flightRef, hasFlightInfo, flight) ==
    [NoReq EXCEPT !.flightRef = flightRef, !.hasFlightInfo = hasFlightInfo, !.flight = flight]

CreateFlightRequests ==
    { FlightRequest(NoRef, TRUE, flight) : flight \in FlightBodies }
    \cup { FlightRequest(NoRef, FALSE, FlightBody(2, 1, 3)) }

UpdateFlightRequests ==
    { FlightRequest(NumRef(1), TRUE, flight) : flight \in FlightBodies }
    \cup { FlightRequest(NumRef(9), TRUE, FlightBody(2, 1, 3)),
           FlightRequest(NumRef(1), FALSE, FlightBody(2, 1, 3)) }

UpdateFlightByCodeRequests ==
    { FlightRequest(CodeRef("VJ1001"), TRUE, flight) : flight \in FlightBodies }
    \cup { FlightRequest(CodeRef("XX1"), TRUE, FlightBody(2, 1, 3)),
           FlightRequest(CodeRef("VJ1001"), FALSE, FlightBody(2, 1, 3)) }

DeleteFlightRequests ==
    { FlightRequest(NumRef(n), FALSE, NoFlight) : n \in {1, 2, 3, 9} }

DeleteFlightByCodeRequests ==
    { FlightRequest(CodeRef(c), FALSE, NoFlight) : c \in {"VN1000", "VJ1001", "XX1"} }

FlightBookings ==
    { BookingRequest(NumRef(1), FALSE, NoRef, "ECONOMY", <<Adult>>, "", FALSE, 0, ""),
      BookingRequest(NumRef(1), TRUE, CodeRef("VJ1001"), "ECONOMY", <<Adult, Adult>>,
                     "SUMMER25", FALSE, 0, "momo") }

CreateFlight(p, R) == \E r \in R : Arrive(p, "CreateFlight", r, "f_insert")
UpdateFlight(p, R) == \E r \in R : Arrive(p, "UpdateFlight", r, "g_getFlight")
UpdateFlightByCode(p, R) == \E r \in R : Arrive(p, "UpdateFlightByCode", r, "h_getFlight")
DeleteFlight(p, R) == \E r \in R : Arrive(p, "DeleteFlight", r, "d_getFlight")
DeleteFlightByCode(p, R) == \E r \in R : Arrive(p, "DeleteFlightByCode", r, "e_getFlight")

FlightNext ==
    \/ Quiescent /\ CreateFlight(1, CreateFlightRequests)
    \/ Quiescent /\ UpdateFlight(1, UpdateFlightRequests)
    \/ Quiescent /\ UpdateFlightByCode(1, UpdateFlightByCodeRequests)
    \/ Quiescent /\ DeleteFlight(1, DeleteFlightRequests)
    \/ Quiescent /\ DeleteFlightByCode(1, DeleteFlightByCodeRequests)
    \/ Quiescent /\ CreateBooking(1, FlightBookings)
    \/ CreateFlightStep(1)
    \/ UpdateFlightStep(1)
    \/ UpdateFlightByCodeStep(1)
    \/ DeleteFlightStep(1)
    \/ DeleteFlightByCodeStep(1)
    \/ CreateBookingStep(1)

FlightSpec == Init /\ [][FlightNext]_vars

(* ------------------------- seats: C1 .. C5 ---------------------------- *)
SeatColumns == SeatFields \cup {"available_seats"}

\* number of legs of booking row bk that are flown on flight f
LegsOn(bk, f) ==
    (IF bk.departure_flight_id = f THEN 1 ELSE 0)
    + (IF bk.is_round_trip = 1 /\ bk.return_flight_id = f THEN 1 ELSE 0)

\* fl is the flight table was with n seats of column field added on every leg
\* of booking row bk (n < 0 takes them away)
SeatsMovedBy(fl, was, bk, field, n) ==
    /\ DOMAIN fl = DOMAIN was
    /\ \A f \in DOMAIN fl :
          /\ \A c \in SeatFields :
                fl[f][c] = was[f][c] + (IF c = field THEN n * LegsOn(bk, f) ELSE 0)
          /\ fl[f].available_seats = was[f].available_seats + n * LegsOn(bk, f)

\* C1: under every interleaving of concurrent CreateBooking requests (a seat
\* check, and later a seat decrement), no per-class seat count and no
\* aggregate available_seats of any flight is ever negative.
C1_SeatsNeverNegative ==
    \A f \in DOMAIN flights : \A c \in SeatColumns : flights[f][c] >= 0

\* C2: every flight's available_seats equals the sum of its four per-class
\* seat counts, in the initial state and after every statement of every
\* CreateBooking and UpdatePaymentStatus request.
C2_AggregateIsSumOfClasses ==
    \A f \in DOMAIN flights :
        flights[f].available_seats =
            flights[f].seats_economy + flights[f].seats_premium_economy
            + flights[f].seats_business + flights[f].seats_first

\* C2 happens: a status update has been answered after it released seats that
\* a booking had taken
C2_Witness ==
    /\ pc[1] = "done"
    /\ op[1] = "UpdatePaymentStatus"
    /\ resp[1].status = 200
    /\ \E f \in DOMAIN flights :
          flights[f].available_seats > pre[1].flights[f].available_seats

\* the answered CreateBooking request of slot p passed validation, its flights
\* were found, and leg ("departure" or "return") is the first leg that had
\* fewer seats of the requested class than the request has passengers
SeatsShortOn(p, leg) ==
    LET r == req[p]
        n == Len(r.passengers)
        field == SeatFieldOf(SeatClassOf(r))
        dep == FindFlight(pre[p].flights, r.departureFlightId)
        ret == FindFlight(pre[p].flights, r.returnFlightId)
    IN  /\ pc[p] = "done"
        /\ op[p] = "CreateBooking"
        /\ r.hasCustomerInfo
        /\ n > 0
        /\ dep # NoFlight
        /\ r.isRoundTrip /\ ~RefMissing(r.returnFlightId) => ret # NoFlight
        /\ IF leg = "departure"
           THEN n > dep[field]
           ELSE /\ n <= dep[field]
                /\ r.isRoundTrip
                /\ ret # NoFlight
                /\ n > ret[field]

\* C3: a CreateBooking request with more passengers than the requested class
\* has seats on the departure flight, or on the return flight of a round
\* trip, is answered 400 "Not enough seats" for that leg with the available
\* and the requested counts, and every table (flights, bookings,
\* booking_details, payments, promotions) is as it was when the request
\* arrived.
C3_InsufficientSeatsChangesNothing ==
    \A p \in Procs : \A leg \in {"departure", "return"} :
        SeatsShortOn(p, leg) =>
            LET r == req[p]
                field == SeatFieldOf(SeatClassOf(r))
                flight == IF leg = "departure"
                          THEN FindFlight(pre[p].flights, r.departureFlightId)
                          ELSE FindFlight(pre[p].flights, r.returnFlightId)
            IN  /\ resp[p].status = 400
                /\ resp[p].error = IF leg = "departure"
                                   THEN "Not enough seats available on departure flight"
                                   ELSE "Not enough seats available on return flight"
                /\ resp[p].available = flight[field]
                /\ resp[p].requested = Len(r.passengers)
                /\ Tables = pre[p]

\* C3 happens: a round trip was refused for its return leg after an earlier
\* booking had been stored
C3_Witness ==
    /\ SeatsShortOn(1, "return")
    /\ bookings # <<>>

\* the booking that slot 1 created with a 201 answer is stored with status st
CreatedBookingIs(st) ==
    /\ Quiescent
    /\ resp[1].status = 201
    /\ resp[1].bookingId \in DOMAIN bookings
    /\ bookings[resp[1].bookingId].payment_status = st

\* C4: one request at a time, a booking is created (one-way or round trip)
\* and then cancelled or refunded while it is unpaid or paid: every flight
\* then has exactly the per-class and aggregate seat counts it had before the
\* booking request arrived.
C4_CancelRestoresSeats ==
    CreatedBookingIs("cancelled") \/ CreatedBookingIs("refunded")
        => flights = pre[1].flights

\* C4 happens: a round trip of two passengers was created, paid and
\* then refunded
C4_Witness ==
    /\ CreatedBookingIs("refunded")
    /\ bookings[resp[1].bookingId].is_round_trip = 1
    /\ Len(req[1].passengers) = 2
    /\ pre[2].bookings[resp[1].bookingId].payment_status = "paid"

\* slot p holds an answered status update (either endpoint)
StatusUpdateDone(p) ==
    /\ pc[p] = "done"
    /\ op[p] \in {"UpdatePaymentStatus", "AdminUpdatePaymentStatus"}

\* the answered status update of slot p asked for cancelled or refunded on a
\* stored booking whose status was paid or unpaid
ReleasingUpdate(p) ==
    /\ StatusUpdateDone(p)
    /\ req[p].paymentStatus \in {"cancelled", "refunded"}
    /\ req[p].bookingId \in DOMAIN pre[p].bookings
    /\ pre[p].bookings[req[p].bookingId].payment_status \in {"paid", "unpaid"}

\* C5: a status update (customer or admin endpoint) to cancelled or refunded
\* on a booking that is paid or unpaid adds the number of the booking's
\* passenger rows to the booking's fare-class count and to available_seats,
\* once for its departure leg and once more for its return leg when it is a
\* round trip (a flight that is both legs gets both additions); every other
\* status update leaves the flights table as it was.
C5_ReleaseOnCancelOrRefund ==
    \A p \in Procs :
        StatusUpdateDone(p) =>
            IF ReleasingUpdate(p)
            THEN LET bk == pre[p].bookings[req[p].bookingId]
                 IN  SeatsMovedBy(flights, pre[p].flights, bk,
                                  SeatFieldOf(bk.travel_class),
                                  CountDetails(pre[p].booking_details, bk.booking_id))
            ELSE flights = pre[p].flights

\* C5 happens: the admin endpoint cancelled a paid round trip to another
\* flight, and the seats came back
C5_Witness ==
    /\ ReleasingUpdate(1)
    /\ op[1] = "AdminUpdatePaymentStatus"
    /\ LET bk == pre[1].bookings[req[1].bookingId]
       IN  /\ bk.payment_status = "paid"
           /\ bk.is_round_trip = 1
           /\ bk.return_flight_id # bk.departure_flight_id
           /\ flights[bk.return_flight_id].seats_business
                  > pre[1].flights[bk.return_flight_id].seats_business

(* ------------------------- fares: C6 .. C8 ----------------------------- *)
\* the multiplier, in hundredths, of each kind of passenger the requests
\* carry: Adult is ADULT, Child is CHILD, Infant is INFANT by date of birth,
\* Senior has a type that is none of the three
MultiplierOfKind(passenger) ==
    IF passenger = Child THEN 75
    ELSE IF passenger = Infant THEN 10
    ELSE 100

\* sum over the passengers of base price x multiplier for the departure leg,
\* plus the same sum for the return leg of a round trip (hundredths)
FareOf(r, dep, ret) ==
    SumOver([i \in DOMAIN r.passengers |->
                (BasePriceOf(dep, SeatClassOf(r))
                 + (IF r.isRoundTrip THEN BasePriceOf(ret, SeatClassOf(r)) ELSE 0))
                * MultiplierOfKind(r.passengers[i])],
            DOMAIN r.passengers)

\* slot 1 holds a CreateBooking request answered 201 that left the total to
\* the server
CalculatedBookingDone ==
    /\ pc[1] = "done"
    /\ op[1] = "CreateBooking"
    /\ resp[1].status = 201
    /\ ~req[1].hasTotalAmount

\* the calculated, undiscounted fare of the request of slot 1
FareOfRequest ==
    FareOf(req[1], FindFlight(pre[1].flights, req[1].departureFlightId),
           FindFlight(pre[1].flights, req[1].returnFlightId))

\* the booking row stored for the request of slot 1
StoredBooking == bookings[resp[1].bookingId]

\* C6: a CreateBooking answered 201, with no caller-supplied total and no
\* promo code, stores and returns the sum over the passengers of departure
\* base price x multiplier (ADULT 1.0, CHILD 0.75, INFANT 0.10, anything else
\* 1.0), plus the same sum at the return base price on a round trip; and the
\* requested class and available_seats are lower by the number of passengers
\* for each booked leg.
C6_CalculatedTotalAndSeats ==
    CalculatedBookingDone /\ req[1].promoCode = "" =>
        /\ resp[1].bookingId \in DOMAIN bookings
        /\ StoredBooking.total_amount = FareOfRequest
        /\ resp[1].totalAmount = FareOfRequest
        /\ SeatsMovedBy(flights, pre[1].flights, StoredBooking,
                        SeatFieldOf(SeatClassOf(req[1])), - Len(req[1].passengers))

\* C6 happens: two passengers, one of them a child, one-way in ECONOMY at
\* 1,000,000: the total is 1,750,000 and two ECONOMY seats are gone
C6_Witness ==
    /\ CalculatedBookingDone
    /\ req[1].promoCode = ""
    /\ req[1].passengers = <<Adult, Child>>
    /\ ~req[1].isRoundTrip
    /\ resp[1].totalAmount = 175000000
    /\ flights[1].seats_economy = SampleFlights[1].seats_economy - 2

\* promo codes of the requests that no usable promotion carries: not in the
\* table, window over, window not begun, usage limit reached
UnusableCodes == {"NOPE", "OLD10", "NEXT10", "FULL10"}

\* the request of slot 1 is complete, its flights exist and have the seats
SeatsSuffice ==
    LET r == req[1]
        field == SeatFieldOf(SeatClassOf(r))
        dep == FindFlight(pre[1].flights, r.departureFlightId)
        ret == FindFlight(pre[1].flights, r.returnFlightId)
    IN  /\ r.hasCustomerInfo
        /\ Len(r.passengers) > 0
        /\ \A i \in DOMAIN r.passengers : r.passengers[i].fullName # ""
        /\ dep # NoFlight
        /\ dep[field] >= Len(r.passengers)
        /\ r.isRoundTrip => ret # NoFlight /\ ret[field] >= Len(r.passengers)

\* C7: a CreateBooking request without a caller-supplied total whose promo
\* code is unknown, expired, not yet valid or exhausted is answered 201 when
\* it would be without the code (the seats suffice and no INSERT fails); its
\* total is the undiscounted calculated fare and no promotion row changes.
C7_UnusablePromoIsIgnored ==
    /\ pc[1] = "done"
    /\ op[1] = "CreateBooking"
    /\ ~req[1].hasTotalAmount
    /\ req[1].promoCode \in UnusableCodes
    =>  /\ promotions = pre[1].promotions
        /\ SeatsSuffice /\ req[1].paymentMethod = "" /\ faults = 0 =>
              /\ resp[1].status = 201
              /\ resp[1].totalAmount = FareOfRequest
              /\ StoredBooking.total_amount = FareOfRequest

\* C7 happens: a booking with the expired code was answered 201
C7_Witness ==
    /\ CalculatedBookingDone
    /\ req[1].promoCode = "OLD10"
    /\ resp[1].totalAmount > 0

\* promo codes of the requests that a usable promotion carries
UsableCodes == {"SUMMER25", "FIXED200K"}

\* the stored total of amount A (hundredths, a multiple of 100) under the
\* promotion of that code: A x (1 - v/100) for percent, max(0, A - v) for fixed
DiscountedTotal(A, code) ==
    LET promo == CHOOSE x \in {SamplePromotions[k] : k \in DOMAIN SamplePromotions} :
                    x.code = code
    IN  IF promo.discount_type = "percent"
        THEN (A \div 100) * (100 - promo.discount_value)
        ELSE Max(0, A - promo.discount_value * 100)

\* slot 1 booked these passengers one-way in ECONOMY on flight 1 with that code
BookedOneWay(passengers, code) ==
    /\ CalculatedBookingDone
    /\ req[1].departureFlightId = NumRef(1)
    /\ ~req[1].isRoundTrip
    /\ SeatClassOf(req[1]) = "ECONOMY"
    /\ req[1].passengers = passengers
    /\ req[1].promoCode = code

\* C8: when CreateBooking applies a valid promotion of value v to the
\* calculated amount A, the stored and returned total is A x (1 - v/100) for
\* a percent promotion and max(0, A - v) for a fixed one, and is never
\* negative; 1,000,000 at 25 percent is 750,000, 1,000,000 less 200,000 is
\* 800,000, and 100,000 less 200,000 is 0.
C8_DiscountedTotal ==
    /\ CalculatedBookingDone /\ req[1].promoCode \in UsableCodes =>
          /\ StoredBooking.total_amount = DiscountedTotal(FareOfRequest, req[1].promoCode)
          /\ resp[1].totalAmount = StoredBooking.total_amount
          /\ StoredBooking.total_amount >= 0
    /\ BookedOneWay(<<Adult>>, "SUMMER25") => StoredBooking.total_amount = 75000000
    /\ BookedOneWay(<<Adult>>, "FIXED200K") => StoredBooking.total_amount = 80000000
    /\ BookedOneWay(<<Infant>>, "FIXED200K") => StoredBooking.total_amount = 0

\* C8 happens: an infant's fare of 100,000 met the fixed promotion of 200,000
C8_Witness ==
    /\ BookedOneWay(<<Infant>>, "FIXED200K")
    /\ FareOfRequest = 10000000
    /\ promotions[2].used_count = SamplePromotions[2].used_count + 1

(* ------------------------ statuses: C9, C10 --------------------------- *)
\* C9: once a booking's payment status is refunded or cancelled, no step of
\* any request (a status update of either endpoint, a payment-information
\* save) gives the booking another status.
C9_TerminalStatusIsFinal ==
    [][\A b \in DOMAIN bookings :
          bookings[b].payment_status \in {"refunded", "cancelled"} /\ b \in DOMAIN bookings'
              => bookings'[b].payment_status = bookings[b].payment_status]_vars

\* C10: every stored booking's payment status is one of unpaid, pending,
\* paid, refunded, cancelled, and a status update of a stored booking that
\* asks for any other value is answered 400 and changes no table.
C10_StatusIsInEnumeration ==
    /\ \A b \in DOMAIN bookings : bookings[b].payment_status \in PaymentStatuses
    /\ \A p \in Procs :
          /\ StatusUpdateDone(p)
          /\ req[p].bookingId \in DOMAIN pre[p].bookings
          /\ req[p].paymentStatus \notin PaymentStatuses
          => resp[p].status = 400 /\ Tables = pre[p]

(* --------------------- stored bookings: C11 --------------------------- *)
\* C11: every stored booking has a return-flight reference exactly when its
\* round-trip flag is set, and its total amount is at least 0, also when the
\* caller supplied a negative total or the discount is larger than the fare.
C11_ReturnRefIffRoundTrip ==
    \A b \in DOMAIN bookings :
        /\ bookings[b].return_flight_id # 0 <=> bookings[b].is_round_trip = 1
        /\ bookings[b].is_round_trip \in {0, 1}
        /\ bookings[b].total_amount >= 0

\* C11 happens: a one-way request that carried a return flight and a negative
\* total is stored without the reference, with total 0
C11_Witness ==
    /\ pc[1] = "done"
    /\ resp[1].status = 201
    /\ ~req[1].isRoundTrip
    /\ ~RefMissing(req[1].returnFlightId)
    /\ req[1].hasTotalAmount /\ req[1].totalAmount < 0
    /\ bookings[resp[1].bookingId].return_flight_id = 0
    /\ bookings[resp[1].bookingId].total_amount = 0

(* ------------------- promotion use counts: C12 .. C17 ------------------ *)
\* C12: with one request at a time, every promotion's used_count is at most
\* its usage_limit in every state reached through CreateBooking and
\* UpdatePaymentStatus requests.
C12_UsedCountWithinLimit ==
    \A k \in DOMAIN promotions : promotions[k].used_count <= promotions[k].usage_limit

\* the answered status update of slot p asked for paid on a stored booking
\* that was not paid and carries a promo code
PayingUpdate(p) ==
    /\ StatusUpdateDone(p)
    /\ req[p].paymentStatus = "paid"
    /\ req[p].bookingId \in DOMAIN pre[p].bookings
    /\ pre[p].bookings[req[p].bookingId].payment_status # "paid"
    /\ pre[p].bookings[req[p].bookingId].promo_code # ""

\* table pr with one more use of every promotion of that code
OneMoreUse(pr, code) ==
    [k \in DOMAIN pr |->
        IF pr[k].code = code THEN [pr[k] EXCEPT !.used_count = @ + 1] ELSE pr[k]]

\* C16: a status update (either endpoint) to paid on a booking that is not
\* paid and carries the code of an existing promotion adds exactly 1 to that
\* promotion's used_count; an update to paid of a booking already paid, and
\* an update to any other status, leave the promotions table as it was.
C16_PaidCountsOneUse ==
    \A p \in Procs :
        StatusUpdateDone(p) =>
            IF PayingUpdate(p)
            THEN promotions =
                    OneMoreUse(pre[p].promotions, pre[p].bookings[req[p].bookingId].promo_code)
            ELSE promotions = pre[p].promotions

\* C16 happens: the admin endpoint marked paid a booking that carries SUMMER25
C16_Witness ==
    /\ PayingUpdate(1)
    /\ op[1] = "AdminUpdatePaymentStatus"
    /\ pre[1].bookings[req[1].bookingId].promo_code = "SUMMER25"
    /\ promotions[1].used_count = pre[1].promotions[1].used_count + 1

\* C17: one booking adds at most 2 to a promotion's used_count over all the
\* requests of its life: at most once when it is created and at most once for
\* its payment, also when it is set to paid more than once.
C17_AtMostTwoUsesPerBooking ==
    \A k \in DOMAIN promotions :
        promotions[k].used_count <= SamplePromotions[k].used_count + 2

(* ------------------- promotion validation: C13 .. C15 ------------------ *)
\* slot 1 holds an answered validation of a code that is not empty
ValidationDone ==
    /\ pc[1] = "done"
    /\ op[1] = "ValidatePromoCode"
    /\ req[1].code # ""

\* the kind of answer of the validation in slot 1
AnswerKind ==
    IF resp[1].status = 200 THEN "Valid"
    ELSE IF resp[1].error = "Invalid or inactive promotion code" THEN "PromoNotFound"
    ELSE IF resp[1].error = "Promotion code is not valid yet" THEN "PromoNotYetValid"
    ELSE IF resp[1].error = "Promotion code has expired" THEN "PromoExpired"
    ELSE "Other"

\* the promotions of table pr that carry the code
Carrying(pr, code) == {x \in {pr[k] : k \in DOMAIN pr} : x.code = code}

\* the kind of answer that validating the code at the instant now calls for,
\* where `exhausted` is the kind for a promotion whose uses have run out
KindCalledFor(pr, code, now, exhausted) ==
    IF \A x \in Carrying(pr, code) : x.status = "inactive" THEN "PromoNotFound"
    ELSE LET promo == CHOOSE x \in Carrying(pr, code) : x.status # "inactive"
         IN  IF promo.used_count >= promo.usage_limit THEN exhausted
             ELSE IF now < StartOfDay(promo.valid_from) THEN "PromoNotYetValid"
             ELSE IF now > StartOfDay(promo.valid_to) THEN "PromoExpired"
             ELSE "Valid"

\* a successful validation returns the kind and the magnitude of the discount
ReturnsDiscountOf(pr, code) ==
    AnswerKind = "Valid" =>
        \E x \in Carrying(pr, code) :
            /\ resp[1].discountType = x.discount_type
            /\ resp[1].discountValue = x.discount_value

\* C13 (as stated): validating a code succeeds, returning the promotion's
\* discount kind and magnitude, exactly when a promotion with that code
\* exists, is not inactive, has used_count below usage_limit and validFrom <=
\* now <= validTo; otherwise it fails with PromoNotFound (absent or inactive),
\* PromoExhausted (used_count >= usage_limit), PromoNotYetValid or
\* PromoExpired; it changes no table.
C13_ValidationAsStated ==
    ValidationDone =>
        /\ AnswerKind = KindCalledFor(pre[1].promotions, req[1].code, Now, "PromoExhausted")
        /\ ReturnsDiscountOf(pre[1].promotions, req[1].code)
        /\ Tables = pre[1]

\* C13 (amended): as above, except that a promotion whose used_count has
\* reached its usage_limit is answered like an absent or inactive one, with
\* the error "Invalid or inactive promotion code".
C13_ValidationAnswers ==
    ValidationDone =>
        /\ AnswerKind = KindCalledFor(pre[1].promotions, req[1].code, Now, "PromoNotFound")
        /\ ReturnsDiscountOf(pre[1].promotions, req[1].code)
        /\ Tables = pre[1]

\* C13 happens: a promotion the administrator created inactive was validated
\* and answered as not found
C13_Witness ==
    /\ ValidationDone
    /\ req[1].code = "VIP"
    /\ \E x \in Carrying(promotions, "VIP") : x.status = "inactive"
    /\ AnswerKind = "PromoNotFound"

\* C14: CreateBooking applies the discount of a promotion, and counts a use
\* of it, only if validating the same code on the same tables at the same
\* time accepts it; a promotion whose status is inactive is never applied.
C14_AppliesOnlyWhatValidates ==
    /\ pc[1] = "done"
    /\ op[1] = "CreateBooking"
    /\ \E k \in DOMAIN promotions :
          promotions[k].used_count > pre[1].promotions[k].used_count
    => KindCalledFor(pre[1].promotions, req[1].promoCode, Now, "PromoNotFound") = "Valid"

\* C15: CreateBooking adds exactly 1 to the used_count of the promotion it
\* applies when the booking is created; when CreateBooking answers with a
\* failure, every promotion's used_count is what it was before the request.
C15_UseCountedOnlyOnSuccess ==
    pc[1] = "done" /\ op[1] = "CreateBooking" =>
        IF resp[1].status = 201 /\ loc[1].promo # NoPromo
        THEN promotions = OneMoreUse(pre[1].promotions, loc[1].promo.code)
        ELSE promotions = pre[1].promotions

(* --------------- failures of CreateBooking: C18, C19 ------------------- *)
\* slot 1 holds an answered round-trip CreateBooking whose body is complete
\* and whose departure flight exists, while its return reference is left out
\* or matches no flight
ReturnUnresolved ==
    /\ pc[1] = "done"
    /\ op[1] = "CreateBooking"
    /\ req[1].isRoundTrip
    /\ ~RefMissing(req[1].departureFlightId)
    /\ req[1].hasCustomerInfo
    /\ Len(req[1].passengers) > 0
    /\ FindFlight(pre[1].flights, req[1].departureFlightId) # NoFlight
    /\ \/ RefMissing(req[1].returnFlightId)
       \/ FindFlight(pre[1].flights, req[1].returnFlightId) = NoFlight

\* C18: a round-trip CreateBooking whose return flight cannot be resolved
\* (reference left out, or matching no flight) is answered with the return
\* leg's flight-not-found error and leaves every seat count and every stored
\* record as it was.
C18_UnresolvedReturnFailsCleanly ==
    ReturnUnresolved =>
        /\ resp[1].status = 404
        /\ resp[1].error = "Return flight not found"
        /\ Tables = pre[1]

\* the request of slot 1 has ended after the INSERT of one of its passenger
\* rows failed (the fare specification runs a single request, so a counted
\* fault is a fault of this request)
DetailInsertFailed ==
    /\ pc[1] = "done"
    /\ op[1] = "CreateBooking"
    /\ faults > 0

\* the legs of the request of slot 1, in the shape of a booking row
LegsOfRequest ==
    [departure_flight_id |-> loc[1].departureFlight.flight_id,
     return_flight_id |-> loc[1].returnFlight.flight_id,
     is_round_trip |-> IF req[1].isRoundTrip /\ loc[1].returnFlight # NoFlight THEN 1 ELSE 0]

\* C19: when the INSERT of a passenger row fails partway through
\* CreateBooking, then at the end of the request no booking row with the
\* generated id is stored, the request is answered as failed, and the seats it
\* took stay taken: the class and available_seats of each of its legs are
\* lower by the number of passengers than before the request.
C19_FailedDetailInsertDropsBooking ==
    DetailInsertFailed =>
        /\ loc[1].bookingId \notin DOMAIN bookings
        /\ resp[1].status = 500
        /\ SeatsMovedBy(flights, pre[1].flights, LegsOfRequest,
                        SeatFieldOf(SeatClassOf(req[1])), - Len(req[1].passengers))

\* C19 happens: the row of the second passenger of a round trip to flight 2
\* failed after the first one was written, and both flights are a seat short
C19_Witness ==
    /\ DetailInsertFailed
    /\ loc[1].i = 2
    /\ Len(booking_details) = 1
    /\ req[1].isRoundTrip
    /\ loc[1].returnFlight.flight_id = 2
    /\ flights[2].available_seats < SampleFlights[2].available_seats
    /\ bookings = <<>>

(* ------------------- the caller-supplied total: C20 -------------------- *)
\* slot 1 holds an answered CreateBooking whose request carried a total
SuppliedTotalDone ==
    /\ pc[1] = "done"
    /\ op[1] = "CreateBooking"
    /\ req[1].hasTotalAmount

\* C20: when the request carries a total T, a created booking stores and
\* returns T, or 0 when T is negative, whatever promo code comes with it; no
\* discount is taken off, and the request leaves every promotion's used_count
\* as it was, whether it ends in a booking or not.
C20_SuppliedTotalIsTaken ==
    SuppliedTotalDone =>
        /\ promotions = pre[1].promotions
        /\ resp[1].status = 201 =>
              LET T == req[1].totalAmount
                  total == IF T < 0 THEN 0 ELSE T
              IN  /\ resp[1].bookingId \in DOMAIN bookings
                  /\ StoredBooking.total_amount = total
                  /\ resp[1].totalAmount = total

\* C20 happens: a booking was created from a request with the usable code
\* SUMMER25 and the total 123,456: that total is stored and SUMMER25 is unused
C20_Witness ==
    /\ SuppliedTotalDone
    /\ resp[1].status = 201
    /\ req[1].promoCode = "SUMMER25"
    /\ req[1].totalAmount = 12345600
    /\ StoredBooking.total_amount = 12345600
    /\ StoredBooking.promo_code = "SUMMER25"
    /\ promotions[1].used_count = 0

(* ------------------ the payment of a new booking: C21 ------------------ *)
\* C21: a CreateBooking request that is complete, whose flights exist and have
\* the seats, whose INSERTs do not fail, and whose payment method is given but
\* is neither bank_transfer nor momo, is not rejected: it is answered 201 and
\* a payment with method momo is stored for the new booking.
C21_UnknownMethodStoredAsMomo ==
    /\ pc[1] = "done"
    /\ op[1] = "CreateBooking"
    /\ SeatsSuffice
    /\ faults = 0
    /\ req[1].paymentMethod \notin PaymentMethods \cup {""}
    => /\ resp[1].status = 201
       /\ resp[1].bookingId \in DOMAIN payments
       /\ payments[resp[1].bookingId].method = "momo"

(* ---------------------- booking identifiers: C22 ----------------------- *)
\* the two booking requests of the identifier race: their rows differ
IdRaceRequests ==
    { BookingRequest(NumRef(1), FALSE, NoRef, "ECONOMY", <<Adult>>, "", FALSE, 0, ""),
      BookingRequest(NumRef(1), TRUE, NumRef(2), "ECONOMY", <<Adult>>, "SUMMER25", FALSE, 0, "momo") }

\* Two concurrent booking requests, one in each slot, on the freshly populated
\* database; their statements interleave in every order.
IdRaceNext ==
    \E p \in Procs :
        \/ op[p] = "" /\ CreateBooking(p, IdRaceRequests)
        \/ CreateBookingStep(p)

IdRaceSpec == Init /\ [][IdRaceNext]_vars

\* slot p holds a CreateBooking that was answered 201
Created(p) ==
    /\ pc[p] = "done"
    /\ op[p] = "CreateBooking"
    /\ resp[p].status = 201

\* C22: no two bookings share a booking identifier, also when two interleaved
\* CreateBooking requests draw the same token and both pass the collision
\* check before either inserts: every stored row is filed under its own
\* booking_id, two requests answered 201 were given different identifiers,
\* and each identifier still names the row of the request it was given to.
C22_BookingIdsAreUnique ==
    /\ \A b \in DOMAIN bookings : bookings[b].booking_id = b
    /\ \A p \in Procs : \A q \in Procs \ {p} :
          Created(p) /\ Created(q) => resp[p].bookingId # resp[q].bookingId
    /\ \A p \in Procs :
          Created(p) =>
              /\ resp[p].bookingId \in DOMAIN bookings
              /\ bookings[resp[p].bookingId].is_round_trip = RoundTripFlag(req[p])
              /\ bookings[resp[p].bookingId].promo_code = req[p].promoCode

\* C22 happens: both requests drew the same token and passed the collision
\* check, one stored its booking and the other's INSERT was refused
C22_Witness ==
    /\ loc[1].bookingId = loc[2].bookingId
    /\ Created(1)
    /\ pc[2] = "done"
    /\ op[2] = "CreateBooking"
    /\ resp[2].status = 500
    /\ resp[2].error = "Failed to create booking due to database constraint"
    /\ pre[2].bookings = <<>>

(* ------------------- the promotion status sweep: C23 ------------------- *)
\* the sweep of slot 2 has run both its statements
SweepDone ==
    /\ pc[2] = "done"
    /\ op[2] = "updatePromotionStatuses"

\* the status the sweep at instant now is to leave on promotion x
SweptStatus(x, now) ==
    IF x.status \notin {"expired", "inactive"} /\ StartOfDay(x.valid_to) < now
    THEN "expired"
    ELSE IF /\ x.status = "scheduled"
            /\ StartOfDay(x.valid_from) <= now
            /\ now <= StartOfDay(x.valid_to)
    THEN "active"
    ELSE x.status

\* a statement of the sweep leaves everything but the status of promotions
SweepStepKeepsCounts ==
    pc[2] \in {"w_expire", "w_activate"} /\ pc'[2] # pc[2] =>
        /\ DOMAIN promotions' = DOMAIN promotions
        /\ \A k \in DOMAIN promotions :
              promotions'[k] = [promotions[k] EXCEPT !.status = promotions'[k].status]
        /\ <<flights, bookings, booking_details, payments>>' =
              <<flights, bookings, booking_details, payments>>

\* C23: the sweep sets to expired exactly the promotions whose validity end
\* is before now and whose status is neither expired nor inactive, sets to
\* active exactly the scheduled promotions whose window contains now, and
\* leaves every other status (that of every inactive promotion among them) and
\* every used_count as it is, also while a booking or a payment update runs
\* between and around its two statements.
C23_SweepRefreshesStatuses ==
    /\ [](SweepDone =>
            \A k \in DOMAIN pre[2].promotions :
                promotions[k].status = SweptStatus(pre[2].promotions[k], Now))
    /\ [][SweepStepKeepsCounts]_vars

\* C23 happens: the sweep made the scheduled VIP active and left NEXT10
\* scheduled while a booking that arrived before its second statement counted
\* a use of a promotion
C23_Witness ==
    /\ SweepDone
    /\ \E x \in Carrying(pre[2].promotions, "VIP") : x.status = "scheduled"
    /\ \E x \in Carrying(promotions, "VIP") : x.status = "active"
    /\ promotions[4].status = "scheduled"
    /\ op[1] = "CreateBooking"
    /\ \E x \in Carrying(pre[1].promotions, "VIP") : x.status = "scheduled"
    /\ \E k \in DOMAIN pre[2].promotions :
          promotions[k].used_count > pre[2].promotions[k].used_count

(* ------------------- persisted passenger types: C24 -------------------- *)
PassengerTypes == {"ADULT", "CHILD", "INFANT"}

\* the type a passenger explicitly carries, "" when it carries none
ExplicitType(passenger) == OrStr(passenger.type, passenger.passengerType)

\* C24: the passenger type stored for each passenger of a created booking is
\* one of ADULT, CHILD, INFANT: the explicitly supplied type in upper case
\* when it is one of the three in any case, whatever the date of birth;
\* without an explicit type INFANT under 2 years, CHILD from 2 to under 12,
\* ADULT from 12; and ADULT when there is neither a type nor a date of birth.
C24_PersistedTypeIsClassified ==
    Created(1) /\ Len(booking_details) = Len(req[1].passengers) =>
        \A i \in DOMAIN booking_details :
            LET passenger == req[1].passengers[i]
                stored == booking_details[i].passenger_type
                age == passenger.dob
            IN  /\ stored \in PassengerTypes
                /\ ToUpperCase(ExplicitType(passenger)) \in PassengerTypes =>
                      stored = ToUpperCase(ExplicitType(passenger))
                /\ ExplicitType(passenger) = "" /\ age # NoDob =>
                      stored = IF age < 2 THEN "INFANT"
                               ELSE IF age < 12 THEN "CHILD" ELSE "ADULT"
                /\ ExplicitType(passenger) = "" /\ age = NoDob => stored = "ADULT"

(* ------------------ flights and their bookings: C25 -------------------- *)
\* the flight_ids of the rows of flight table fl
IdsOf(fl) == {fl[f].flight_id : f \in DOMAIN fl}

\* the flight_ids that the rows of booking table bk refer to
ReferencedBy(bk) ==
    {bk[b].departure_flight_id : b \in DOMAIN bk}
    \cup {bk[b].return_flight_id : b \in {x \in DOMAIN bk : bk[x].is_round_trip = 1}}

\* slot 1 holds an answered flight delete request, by id or by code
DeleteDone ==
    /\ pc[1] = "done"
    /\ op[1] \in {"DeleteFlight", "DeleteFlightByCode"}

\* C25: the departure flight of every booking, and its return flight when it
\* has one, is a stored flight; and the flights a delete request (by id or by
\* code) has removed are flights that no booking referred to.
C25_BookedFlightsStay ==
    /\ ReferencedBy(bookings) \subseteq IdsOf(flights)
    /\ DeleteDone =>
          (IdsOf(pre[1].flights) \ IdsOf(flights)) \cap ReferencedBy(pre[1].bookings) = {}

\* C25 happens: a delete by code of the return flight of a stored round trip
\* was answered, and the flight is still stored
C25_Witness ==
    /\ DeleteDone
    /\ op[1] = "DeleteFlightByCode"
    /\ req[1].flightRef = CodeRef("VJ1001")
    /\ resp[1].status >= 400
    /\ \E b \in DOMAIN bookings :
          bookings[b].is_round_trip = 1 /\ bookings[b].return_flight_id = 2
    /\ 2 \in IdsOf(flights)

(* ------------------- seats under flight edits: C28 --------------------- *)
\* C28: in every state, also after the operator has created flights and
\* updated flights by id or by flight code, the available_seats of each
\* flight is the sum of its four class counts and no class count is negative.
C28_SeatsConsistentUnderEdits ==
    \A f \in DOMAIN flights :
        /\ flights[f].available_seats =
              flights[f].seats_economy + flights[f].seats_premium_economy
              + flights[f].seats_business + flights[f].seats_first
        /\ \A c \in SeatFields : flights[f][c] >= 0

(* ------------- bookings and payments once stored: C26, C27 ------------- *)
\* booking b is not the booking of a CreateBooking that is still running
Settled(b) ==
    \A p \in Procs :
        op[p] = "CreateBooking" /\ loc[p].bookingId = b => pc[p] = "done"

\* a step keeps every settled booking, with every field but payment_status
BookingsKept ==
    \A b \in DOMAIN bookings :
        Settled(b) =>
            /\ b \in DOMAIN bookings'
            /\ bookings'[b] =
                  [bookings[b] EXCEPT !.payment_status = bookings'[b].payment_status]

\* C26: once CreateBooking has answered for a booking it stored, the booking
\* is stored in every later state, and no later operation changes any of its
\* fields but payment_status: the flight references, the class, the total,
\* the promo code, the contact name and the round-trip flag stay as created.
C26_BookingKeptAsCreated == [][BookingsKept]_vars

\* C26 happens: a round trip created with SUMMER25 that has a payment record
\* has been refunded, and still carries its promo code and its return flight
C26_Witness ==
    /\ Quiescent
    /\ op[1] \in {"UpdatePaymentStatus", "AdminUpdatePaymentStatus"}
    /\ resp[1].status = 200
    /\ \E b \in DOMAIN bookings :
          /\ bookings[b].payment_status = "refunded"
          /\ bookings[b].promo_code = "SUMMER25"
          /\ bookings[b].return_flight_id = 2
          /\ b \in DOMAIN payments

\* C27: a booking has at most one payment record, and once the record is
\* stored no later step changes its method or its transaction reference.
C27_PaymentRecordIsImmutable ==
    [][\A b \in DOMAIN payments :
          b \in DOMAIN payments' /\ payments'[b] = payments[b]]_vars

(* ---------------------- seat conservation: C29, C30 -------------------- *)
\* the statuses under which a booking holds its seats
HoldingStatuses == {"unpaid", "pending", "paid"}

\* the seats of column c of flight f held by the stored bookings: for every
\* booking of that class with a holding status, its passenger rows once for
\* each of its legs on f
SeatsHeld(f, c) ==
    LET holding == {b \in DOMAIN bookings :
                       /\ bookings[b].payment_status \in HoldingStatuses
                       /\ SeatFieldOf(bookings[b].travel_class) = c}
        held == [b \in holding |->
                    LegsOn(bookings[b], f) * CountDetails(booking_details, b)]
    IN  SumOver(held, holding)

\* C29: with no operator flight edits and no failing INSERT, whenever no
\* request is running, for every flight and class the current seat count plus
\* the passengers of the bookings of that flight and class whose status is
\* unpaid, pending or paid is the seat count the class began with: no sequence
\* of bookings, payment saves and status updates leaks or creates seats.
C29_SeatsAreConserved ==
    Quiescent /\ faults = 0 =>
        \A f \in DOMAIN flights : \A c \in SeatFields :
            flights[f][c] + SeatsHeld(flights[f].flight_id, c) = SampleFlights[f][c]

\* C30: no sequence or interleaving of bookings and payment-status updates,
\* repeated or concurrent cancellations and refunds of one booking included,
\* raises a class's seat count of a flight above the count the class had
\* before those bookings.
C30_SeatsNeverExceedInitial ==
    \A f \in DOMAIN flights : \A c \in SeatFields :
        flights[f][c] <= SampleFlights[f][c]

(* ------------------ what a booking request leaves: C31..C34 ------------ *)
\* C31: in every state every passenger row belongs to a stored booking; in
\* particular no passenger row of a booking is left once the booking request
\* has deleted that booking after a failed passenger INSERT.
C31_DetailsBelongToBookings ==
    \A k \in DOMAIN booking_details :
        booking_details[k].booking_id \in DOMAIN bookings

\* the booking request of slot p has been answered with a 4xx or 5xx status
CreateFailed(p) ==
    /\ op[p] = "CreateBooking"
    /\ pc[p] = "done"
    /\ resp[p].status >= 400

\* C32: whenever a booking request has been answered with a failure, the
\* store holds no booking that this request inserted.
C32_FailedCreateLeavesNoBooking ==
    \A p \in Procs :
        CreateFailed(p) =>
            loc[p].bookingId \notin DOMAIN bookings \ DOMAIN pre[p].bookings

\* the booking request of slot 1 has ended and the booking row it inserted
\* is stored
CreateStoredBooking ==
    /\ op[1] = "CreateBooking"
    /\ pc[1] = "done"
    /\ loc[1].bookingId \in DOMAIN bookings \ DOMAIN pre[1].bookings

\* C33: for a stored booking the number of its passenger rows is the number
\* of seats its request took on each of its legs: once a booking request has
\* ended and left its booking stored, the class and available_seats of every
\* leg of the booking are lower than before the request by exactly the number
\* of passenger rows of the booking.
C33_DetailRowsMatchSeatsTaken ==
    CreateStoredBooking =>
        LET bk == bookings[loc[1].bookingId]
        IN  SeatsMovedBy(flights, pre[1].flights, bk, SeatFieldOf(bk.travel_class),
                         - CountDetails(booking_details, bk.booking_id))

\* C34: a stored booking carries a promo code only if its request validated
\* that code and applied its discount: once a booking request has ended and
\* left its booking stored with a promo code, the request found a usable
\* promotion of that code and the stored total is the calculated amount less
\* the discount of that promotion.
C34_StoredCodeWasApplied ==
    CreateStoredBooking /\ bookings[loc[1].bookingId].promo_code # "" =>
        /\ loc[1].promo # NoPromo
        /\ loc[1].promo.code = bookings[loc[1].bookingId].promo_code
        /\ bookings[loc[1].bookingId].total_amount =
               Max(0, loc[1].calculatedAmount
                      - DiscountApplied(loc[1].promo, loc[1].calculatedAmount))

(* --------------------------- base price: C35 --------------------------- *)
\* the price column of a fare class
PriceColumnOf(fareClass) ==
    CASE fareClass = "PREMIUM_ECONOMY" -> "price_premium_economy"
      [] fareClass = "BUSINESS" -> "price_business"
      [] fareClass = "FIRST" -> "price_first"
      [] OTHER -> "price_economy"

\* the price of the class on that flight when the class has one, otherwise
\* the ECONOMY price of the flight
PriceFor(flight, fareClass) ==
    IF flight[PriceColumnOf(fareClass)] # 0
    THEN flight[PriceColumnOf(fareClass)]
    ELSE flight.price_economy

\* the booking request of slot 1 has calculated its total
AmountCalculated ==
    /\ op[1] = "CreateBooking"
    /\ loc[1].calculated

\* C35: the base price the booking request uses for a fare class on a leg is
\* that flight's price of the class when the class has a price and the
\* flight's ECONOMY price otherwise, decided for the departure and for the
\* return flight each on its own: the calculated amount is the sum over the
\* passengers of multiplier x (that price of the departure flight, plus on a
\* round trip that price of the return flight).
C35_BasePricePerLeg ==
    AmountCalculated =>
        LET r == req[1]
            dep == FindFlight(pre[1].flights, r.departureFlightId)
            ret == FindFlight(pre[1].flights, r.returnFlightId)
            perLeg == PriceFor(dep, SeatClassOf(r))
                      + (IF r.isRoundTrip THEN PriceFor(ret, SeatClassOf(r)) ELSE 0)
        IN  loc[1].calculatedAmount =
                SumOver([i \in DOMAIN r.passengers |->
                            perLeg * MultiplierOfKind(r.passengers[i])],
                        DOMAIN r.passengers)

\* C35 happens: a round trip in BUSINESS from flight 1, which prices the
\* class at 2,500,000, to flight 2, which has no BUSINESS price and an ECONOMY
\* price of 500,000: one adult is charged 3,000,000
C35_Witness ==
    /\ AmountCalculated
    /\ SeatClassOf(req[1]) = "BUSINESS"
    /\ req[1].isRoundTrip
    /\ loc[1].departureFlight.flight_id = 1
    /\ loc[1].returnFlight.flight_id = 2
    /\ req[1].passengers = <<Adult>>
    /\ loc[1].calculatedAmount = 300000000

(* ------------------------ order of the writes: C36 --------------------- *)
\* the flight rows that differ from the rows at the arrival of the request
ChangedFlights ==
    {flights[f].flight_id : f \in {g \in DOMAIN flights : flights[g] # pre[1].flights[g]}}

\* the booking row of the request of slot 1 is stored
HeaderStored == loc[1].bookingId \in DOMAIN bookings

\* the seats of every leg of the request of slot 1 have been taken
SeatsTaken ==
    SeatsMovedBy(flights, pre[1].flights, LegsOfRequest,
                 SeatFieldOf(SeatClassOf(req[1])), - Len(req[1].passengers))

\* the stored passenger rows are the rows of the first passengers of the
\* request of slot 1, in the order of its list
DetailsInListOrder ==
    /\ Len(booking_details) <= Len(req[1].passengers)
    /\ \A k \in DOMAIN booking_details :
          /\ booking_details[k].booking_id = loc[1].bookingId
          /\ booking_details[k].full_name = req[1].passengers[k].fullName

\* C36: in every execution of a booking request the writes come in this
\* order and none comes before an earlier one: the seats of the departure
\* flight, the seats of the return flight (on a round trip only), the booking
\* row, the passenger rows in the order of the list, the payment row (only
\* when a payment method was supplied).  In every state of a single request:
\* a changed return flight has a changed departure flight, and only a round
\* trip changes another flight; a stored booking row has the seats of all
\* its legs taken; stored passenger rows have the booking row stored (or
\* deleted again after a failed INSERT) and are the first passengers in list
\* order; a stored payment row has all passenger rows stored and a method
\* in the request.
C36_WritesInOrder ==
    op[1] = "CreateBooking" =>
        /\ ChangedFlights # {} => loc[1].departureFlight.flight_id \in ChangedFlights
        /\ ~req[1].isRoundTrip => ChangedFlights \subseteq {loc[1].departureFlight.flight_id}
        /\ HeaderStored => SeatsTaken
        /\ booking_details # <<>> => (HeaderStored \/ faults > 0) /\ DetailsInListOrder
        /\ payments # <<>> =>
              /\ HeaderStored
              /\ Len(booking_details) = Len(req[1].passengers)
              /\ req[1].paymentMethod # ""

\* C36 happens: a round trip from flight 1 to flight 2 for two passengers
\* paid by momo has been answered 201 with all five kinds of write done
C36_Witness ==
    /\ op[1] = "CreateBooking"
    /\ pc[1] = "done"
    /\ resp[1].status = 201
    /\ ChangedFlights = {1, 2}
    /\ HeaderStored
    /\ Len(booking_details) = 2
    /\ loc[1].bookingId \in DOMAIN payments

(* ------------------- priced and stored type: C37 ----------------------- *)
\* passengers that carry both a type and a passengerType, of different values
ChildCalledAdult == Passenger("Em", "child", "ADULT", NoDob)
AdultCalledInfant == Passenger("Giang", "adult", "INFANT", NoDob)

\* the booking requests of the type specification: every list of passengers
\* of the six kinds, one-way and round trip, with and without a promo code
\* and a payment method
TypeRequests ==
    { BookingRequest(NumRef(1), t[1], t[2], "ECONOMY", passengers, x[1], FALSE, 0, x[2]) :
        t \in {<<FALSE, NoRef>>, <<TRUE, NumRef(2)>>},
        passengers \in PassengerLists({Adult, Child, Infant, Senior,
                                       ChildCalledAdult, AdultCalledInfant}),
        x \in {<<"", "">>, <<"SUMMER25", "momo">>} }

\* One booking request of the type specification on the freshly populated
\* database.
TypeInit ==
    /\ flights = SampleFlights
    /\ bookings = <<>>
    /\ booking_details = <<>>
    /\ payments = <<>>
    /\ promotions = SamplePromotions
    /\ \E r \in TypeRequests : req = [p \in Procs |-> IF p = 1 THEN r ELSE NoReq]
    /\ pc = [p \in Procs |-> IF p = 1 THEN "c_getDeparture" ELSE "idle"]
    /\ op = [p \in Procs |-> IF p = 1 THEN "CreateBooking" ELSE ""]
    /\ loc = [p \in Procs |-> NoLoc]
    /\ resp = [p \in Procs |-> NoResp]
    /\ pre = [p \in Procs |-> Tables]
    /\ ops = 1
    /\ faults = 0

TypeNext == CreateBookingStep(1)

TypeSpec == TypeInit /\ [][TypeNext]_vars

\* C37: for every passenger of a booking whose total the server calculated,
\* the type stored in the passenger row is the type whose multiplier priced
\* the passenger, also when the request gives the passenger a type and a
\* passengerType of different values.
C37_StoredTypeIsPricedType ==
    AmountCalculated =>
        \A k \in DOMAIN booking_details :
            booking_details[k].passenger_type
                = CalculatedPassengerType(req[1].passengers[k])

(* ---------------------- concurrent decrements: C38 --------------------- *)
\* Two concurrent booking requests of the race, one in each slot, on the
\* freshly populated database; their statements interleave in every order.
SeatRaceNext ==
    \E p \in Procs :
        \/ op[p] = "" /\ CreateBooking(p, RaceRequests)
        \/ CreateBookingStep(p)

SeatRaceSpec == Init /\ [][SeatRaceNext]_vars

\* the seats the request of slot p takes on flight f: its passengers once for
\* every leg it flies on f
SeatsAskedOn(p, f) ==
    Len(req[p].passengers)
    * ((IF loc[p].departureFlight.flight_id = f THEN 1 ELSE 0)
       + (IF req[p].isRoundTrip /\ loc[p].returnFlight.flight_id = f THEN 1 ELSE 0))

\* every request that arrived has been answered 201
AllCreated == \A p \in Procs : op[p] # "" => Created(p)

\* C38: when several booking requests on the same flight and fare class
\* interleave in any order and all succeed, the seat count of the class and
\* available_seats each end lower by exactly the sum of their passenger
\* counts: no decrement is lost or applied twice.  (All requests of the race
\* book ECONOMY.)
C38_ConcurrentDecrementsAddUp ==
    AllCreated =>
        \A f \in DOMAIN flights :
            LET arrived == {p \in Procs : op[p] # ""}
                taken == SumOver([p \in arrived |-> SeatsAskedOn(p, flights[f].flight_id)],
                                 arrived)
            IN  /\ flights[f].seats_economy = SampleFlights[f].seats_economy - taken
                /\ flights[f].available_seats = SampleFlights[f].available_seats - taken
                /\ \A c \in SeatFields \ {"seats_economy"} :
                      flights[f][c] = SampleFlights[f][c]

\* C38 happens: a request for two passengers and a request for one, both for
\* ECONOMY on flight 1, each looked the flight up before the other took its
\* seats; both were answered 201 and all three seats are gone
C38_Witness ==
    /\ Created(1)
    /\ Created(2)
    /\ Len(req[1].passengers) = 2
    /\ Len(req[2].passengers) = 1
    /\ ~req[2].isRoundTrip
    /\ loc[1].departureFlight.seats_economy = 3
    /\ loc[2].departureFlight.seats_economy = 3
    /\ flights[1].seats_economy = 0

(* -------------------- the two status endpoints: C39 -------------------- *)
\* the tables a status update of booking bookingId to paymentStatus leaves
\* when it starts from the tables T: a promotion use counted when the booking
\* becomes paid, the seats of every leg given back when a paid or unpaid
\* booking is cancelled or refunded, the new status stored
StatusUpdateResult(T, bookingId, paymentStatus) ==
    IF bookingId \notin DOMAIN T.bookings THEN T
    ELSE LET cur == T.bookings[bookingId]
             promo == FindPromoByCode(T.promotions, cur.promo_code)
             counts == /\ paymentStatus = "paid"
                       /\ cur.payment_status # "paid"
                       /\ cur.promo_code # ""
                       /\ promo # NoPromo
             releases == /\ paymentStatus \in {"cancelled", "refunded"}
                         /\ cur.payment_status \in {"paid", "unpaid"}
             n == CountDetails(T.booking_details, bookingId)
             field == SeatFieldOf(cur.travel_class)
         IN  [T EXCEPT
                !.promotions =
                    [k \in DOMAIN @ |->
                        IF counts /\ @[k].promo_id = promo.promo_id
                        THEN [@[k] EXCEPT !.used_count = @ + 1]
                        ELSE @[k]],
                !.flights =
                    [f \in DOMAIN @ |->
                        IF releases
                        THEN [@[f] EXCEPT
                                ![field] = @ + n * LegsOn(cur, T.flights[f].flight_id),
                                !.available_seats = @ + n * LegsOn(cur, T.flights[f].flight_id)]
                        ELSE @[f]],
                !.bookings =
                    [b \in DOMAIN @ |->
                        IF b = bookingId
                        THEN [@[b] EXCEPT !.payment_status = paymentStatus]
                        ELSE @[b]]]

\* slot p holds an answered status update, of either endpoint, to one of the
\* four statuses both accept
ValidStatusUpdateDone(p) ==
    /\ op[p] \in {"UpdatePaymentStatus", "AdminUpdatePaymentStatus"}
    /\ pc[p] = "done"
    /\ req[p].paymentStatus \in {"unpaid", "paid", "refunded", "cancelled"}

\* C39: for every state, booking id and new status among unpaid, paid,
\* refunded and cancelled, the customer endpoint and the admin endpoint leave
\* the same state (booking status, all seat counts, all promotion usage
\* counts) and give the same success or not-found answer: a status update of
\* either endpoint ends in one and the same function of the tables at its
\* arrival, the booking id and the status, answered 200 when the booking was
\* stored and 404 when it was not.
C39_EndpointsAgree ==
    \A p \in Procs :
        ValidStatusUpdateDone(p) =>
            /\ Tables = StatusUpdateResult(pre[p], req[p].bookingId, req[p].paymentStatus)
            /\ resp[p].status =
                  (IF req[p].bookingId \in DOMAIN pre[p].bookings THEN 200 ELSE 404)

\* C39 happens: the admin endpoint has refunded a paid round trip between
\* flights 1 and 2 that carries a promo code, and both flights got seats back
C39_Witness ==
    /\ ValidStatusUpdateDone(1)
    /\ op[1] = "AdminUpdatePaymentStatus"
    /\ req[1].paymentStatus = "refunded"
    /\ req[1].bookingId \in DOMAIN pre[1].bookings
    /\ pre[1].bookings[req[1].bookingId].payment_status = "paid"
    /\ pre[1].bookings[req[1].bookingId].return_flight_id = 2
    /\ pre[1].bookings[req[1].bookingId].promo_code = "SUMMER25"
    /\ flights[1].available_seats > pre[1].flights[1].available_seats
    /\ flights[2].available_seats > pre[1].flights[2].available_seats

(* -------------------------- termination: C40 --------------------------- *)
\* A round trip request in slot 2 that arrives first, and one-way requests
\* in slot 1, one after another, whose statements interleave with it.  Every
\* storage call returns, and the random generator does not avoid an unused
\* token for ever: a request that can take a step which changes the state
\* eventually takes one.
LiveRequest(rt) ==
    IF rt
    THEN BookingRequest(NumRef(1), TRUE, NumRef(2), "ECONOMY", <<Adult>>, "SUMMER25", FALSE, 0, "momo")
    ELSE BookingRequest(NumRef(1), FALSE, NoRef, "ECONOMY", <<Adult>>, "", FALSE, 0, "")

LiveNext ==
    \/ CreateBooking(1, {LiveRequest(FALSE)})
    \/ ops = 0 /\ CreateBooking(2, {LiveRequest(TRUE)})
    \/ \E p \in Procs : CreateBookingStep(p)

LiveSpec ==
    /\ Init
    /\ [][LiveNext]_vars
    /\ \A p \in Procs : WF_vars(CreateBookingStep(p))

\* the booking request of slot p is running
CreateRunning(p) ==
    /\ op[p] = "CreateBooking"
    /\ pc[p] \notin {"idle", "done"}

\* no token of the alphabet is unused
IdsExhausted == BookingIds \subseteq DOMAIN bookings

\* C40: every booking request eventually produces a response: under fair
\* random choice the identifier loop ends whenever an unused identifier
\* exists, and no other step of the request waits on anything but a storage
\* call.  A running request is answered, unless every identifier is in use.
C40_CreateEventuallyResponds ==
    \A p \in Procs : CreateRunning(p) ~> (pc[p] = "done" \/ IdsExhausted)

\* C40 happens: a request that arrived when identifier 1 was in use, so that
\* a draw of its loop could collide, has been answered 201 with identifier 2
C40_Witness ==
    /\ Created(1)
    /\ DOMAIN pre[1].bookings = {1}
    /\ resp[1].bookingId = 2

====
